---- MODULE Spec2Model ----
(***************************************************************************)
(* A model of ConfigEditor: the path-addressed data access layer          *)
(* (AnyDataHandler), the document store (DataManager and its YAML / JSON   *)
(* subclasses), the structured-text codec and the field binding            *)
(* (ItemWidget).                                                           *)
(*                                                                         *)
(* Python values are tagged records:                                       *)
(*   None   [t |-> "none"]                                                 *)
(*   str    [t |-> "str",  s |-> <<"A", "b">>]   (a sequence of characters)*)
(*   bool   [t |-> "bool", b |-> TRUE]                                     *)
(*   dict   [t |-> "dict", items |-> << [k |-> key, v |-> value], ... >>]  *)
(*          (insertion order kept, keys are character sequences)           *)
(*   list   [t |-> "list", elems |-> << value, ... >>]                     *)
(* A Python str is a sequence of one-character strings, so that split,     *)
(* membership of a character and concatenation are computed, not assumed.  *)
(* Tuples are not modelled: neither codec produces one.                    *)
(***************************************************************************)
EXTENDS Integers, Sequences, FiniteSets, TLC

VARIABLES
    cls,              \* the concrete store class of the instance
    data,             \* DataManager._data
    file_path,        \* DataManager.file_path
    unsaved_changes,  \* DataManager.unsaved_changes
    snapshots,        \* DataManager.snapshots
    proxy_mapping,    \* DataManager.proxy_mapping, as a set of [key, file] entries
    files,            \* the file system: path -> content
    result,           \* what the last call did: operation, return value, exception
    touched,          \* the proxy files whose modification time the last call updated
    loaded,           \* history: the document produced by the last successful load
    pushes,           \* history: snapshot pushes since the last load or undo (capped)
    shared,           \* the positions of snapshots that hold the very object of _data
    value_type,       \* ItemWidget.value_type
    rgx,              \* ItemWidget.rgx
    is_valid,         \* ItemWidget.is_valid
    widget_text,      \* the text held by the widget's control
    notified          \* the calls of the callback in the last run of on_widget_changed

vars == <<cls, data, file_path, unsaved_changes, snapshots, proxy_mapping, files,
          result, touched, loaded, pushes, shared, value_type, rgx, is_valid, widget_text,
          notified>>

storeVars == <<cls, data, file_path, unsaved_changes, snapshots, proxy_mapping, files,
               loaded, pushes, shared>>

widgetVars == <<value_type, rgx, is_valid, widget_text, notified>>

-----------------------------------------------------------------------------
(* Python values *)

None == [t |-> "none"]

Str(s) == [t |-> "str", s |-> s]

Bool(b) == [t |-> "bool", b |-> b]

Dict(items) == [t |-> "dict", items |-> items]

List(elems) == [t |-> "list", elems |-> elems]

EmptyDict == Dict(<<>>)

Item(k, v) == [k |-> k, v |-> v]

\* Python truthiness, as used by "if data:" and "if val:"
Truthy(v) ==
    CASE v.t = "none" -> FALSE
      [] v.t = "str"  -> v.s # <<>>
      [] v.t = "bool" -> v.b
      [] v.t = "dict" -> v.items # <<>>
      [] v.t = "list" -> v.elems # <<>>

Front(s) == SubSeq(s, 1, Len(s) - 1)

Last(s) == s[Len(s)]

\* "c in key" for a character c
Contains(s, c) == \E i \in 1..Len(s) : s[i] = c

\* index of the first occurrence of c in s (0 when there is none)
IndexOf(s, c) ==
    IF Contains(s, c) THEN CHOOSE i \in 1..Len(s) : s[i] = c /\ \A j \in 1..(i - 1) : s[j] # c
    ELSE 0

\* str.split(c): the pieces between the occurrences of c, empty pieces included
RECURSIVE Split(_, _)
Split(s, c) ==
    IF ~Contains(s, c) THEN <<s>>
    ELSE LET i == IndexOf(s, c)
         IN  <<SubSeq(s, 1, i - 1)>> \o Split(SubSeq(s, i + 1, Len(s)), c)

\* sep.join(parts)
RECURSIVE Join(_, _)
Join(parts, sep) ==
    IF parts = <<>> THEN <<>>
    ELSE IF Len(parts) = 1 THEN parts[1]
    ELSE parts[1] \o sep \o Join(Tail(parts), sep)

Digits == <<"0", "1", "2", "3", "4", "5", "6", "7", "8", "9">>

DigitVal(c) == (CHOOSE i \in 1..10 : Digits[i] = c) - 1

\* str.isdigit()
IsDigit(s) == s # <<>> /\ \A i \in 1..Len(s) : \E j \in 1..10 : Digits[j] = s[i]

\* int(s) for a digit string
RECURSIVE ToInt(_)
ToInt(s) == IF s = <<>> THEN 0 ELSE 10 * ToInt(Front(s)) + DigitVal(Last(s))

\* "k in target" for a dict
HasKey(d, k) == \E i \in 1..Len(d.items) : d.items[i].k = k

\* target[k] for a dict that has k
DictGet(d, k) == d.items[CHOOSE i \in 1..Len(d.items) : d.items[i].k = k].v

\* a dict assignment that leaves an existing key alone
DictSet_keep_existing(d, k, v) ==
    IF HasKey(d, k) THEN d ELSE Dict(Append(d.items, Item(k, v)))

\* target[k] = v for a dict: replace in place, or append a new key
DictSet(d, k, v) ==
    IF HasKey(d, k)
    THEN LET i == CHOOSE j \in 1..Len(d.items) : d.items[j].k = k
         IN  Dict(SubSeq(d.items, 1, i - 1) \o <<Item(k, v)>>
                  \o SubSeq(d.items, i + 1, Len(d.items)))
    ELSE Dict(Append(d.items, Item(k, v)))

RECURSIVE Extend(_, _, _)

\* a loop that appends empty mappings whatever the filler
Extend_empty_mappings(elems, index, filler) ==
    elems \o [i \in 1..(index + 1 - Len(elems)) |-> EmptyDict]

\* "while index >= len(container): container.append(filler)"
Extend(elems, index, filler) ==
    IF index >= Len(elems) THEN Extend(Append(elems, filler), index, filler) ELSE elems

\* container[index] = v for a list with index < len
ListSet(l, index, v) ==
    List(SubSeq(l.elems, 1, index) \o <<v>> \o SubSeq(l.elems, index + 2, Len(l.elems)))

\* the characters of a Python literal
Chars(lit) ==
    CASE lit = "None"  -> <<"N", "o", "n", "e">>
      [] lit = "True"  -> <<"T", "r", "u", "e">>
      [] lit = "False" -> <<"F", "a", "l", "s", "e">>

\* repr of a str: double quotes when the text holds a single quote and no
\* double quote, single quotes otherwise; the delimiter and the backslash
\* are escaped (characters that are not printable do not occur)
RECURSIVE Escaped(_, _)
Escaped(s, q) ==
    IF s = <<>> THEN <<>>
    ELSE (IF Head(s) = q \/ Head(s) = "\\" THEN <<"\\", Head(s)>> ELSE <<Head(s)>>)
         \o Escaped(Tail(s), q)

ReprStr(s) ==
    LET q == IF Contains(s, "'") /\ ~Contains(s, "\"") THEN "\"" ELSE "'"
    IN  <<q>> \o Escaped(s, q) \o <<q>>

\* repr(v) and str(v)
RECURSIVE Repr(_)
RECURSIVE ReprItems(_)
RECURSIVE ReprElems(_)
Repr(v) ==
    CASE v.t = "none" -> Chars("None")
      [] v.t = "str"  -> ReprStr(v.s)
      [] v.t = "bool" -> IF v.b THEN Chars("True") ELSE Chars("False")
      [] v.t = "dict" -> <<"{">> \o ReprItems(v.items) \o <<"}">>
      [] v.t = "list" -> <<"[">> \o ReprElems(v.elems) \o <<"]">>

ReprItems(items) ==
    IF items = <<>> THEN <<>>
    ELSE Repr(Str(items[1].k)) \o <<":", " ">> \o Repr(items[1].v)
         \o (IF Len(items) > 1 THEN <<",", " ">> \o ReprItems(Tail(items)) ELSE <<>>)

ReprElems(elems) ==
    IF elems = <<>> THEN <<>>
    ELSE Repr(elems[1])
         \o (IF Len(elems) > 1 THEN <<",", " ">> \o ReprElems(Tail(elems)) ELSE <<>>)

PyStr(v) == IF v.t = "str" THEN v.s ELSE Repr(v)

-----------------------------------------------------------------------------
(* AnyDataHandler.  Python mutates the document in place; here every       *)
(* operator returns the document as the call leaves it, also when the call *)
(* ends in an exception.                                                   *)

\* replace_ref, returning the value of the reference without the main key
replace_ref_no_main(main_key, ref) ==
    IF ref # None
    THEN [exc |-> "none", found |-> TRUE, key |-> PyStr(ref)]
    ELSE [exc |-> "none", found |-> FALSE, key |-> <<>>]

\* replace_indirect for a key main_key@indirect_ref, ref being
\* data.get(indirect_ref)
replace_ref(main_key, ref) ==
    IF ref # None
    THEN [exc |-> "none", found |-> TRUE, key |-> main_key \o PyStr(ref)]
    ELSE [exc |-> "none", found |-> FALSE, key |-> <<>>]

\* replace_indirect: the resolved key, "absent" when the reference is not a
\* top-level key, or the AttributeError of data.get on a document that is not
\* a dict
replace_indirect(d, key) ==
    IF Contains(key, "@")
    THEN IF d.t # "dict"
         THEN [exc |-> "AttributeError", found |-> FALSE, key |-> <<>>]
         ELSE replace_ref(SubSeq(key, 1, IndexOf(key, "@") - 1),
                          IF HasKey(d, SubSeq(key, IndexOf(key, "@") + 1, Len(key)))
                          THEN DictGet(d, SubSeq(key, IndexOf(key, "@") + 1, Len(key)))
                          ELSE None)
    ELSE [exc |-> "none", found |-> TRUE, key |-> key]

\* _validate_index: "ValueError" unless the key is a digit string
validate_index(key) ==
    IF IsDigit(key) THEN [exc |-> "none", index |-> ToInt(key)]
    ELSE [exc |-> "ValueError", index |-> 0]

\* The loop of _navigate_hierarchy over keys[:-1], from target.  Returns the
\* exception raised (or "none"), target as the loop leaves it (with the
\* containers it created), and the steps taken to the final container.
RECURSIVE navigate_loop(_, _, _)

\* the rest of the loop below target[k] of the dict t1, put back into t1
navigate_dict(t1, k, r) ==
    [exc |-> r.exc, tree |-> DictSet(t1, k, r.tree), loc |-> <<k>> \o r.loc]

\* the rest of the loop below target[index] of the list t1, put back into t1
navigate_list(t1, k, index, r) ==
    [exc |-> r.exc, tree |-> ListSet(t1, index, r.tree), loc |-> <<k>> \o r.loc]

\* one step of the loop into the list t1 (target, extended when creating)
navigate_index(t1, ks, index, create_missing) ==
    IF index >= Len(t1.elems)
    THEN [exc |-> "IndexError", tree |-> t1, loc |-> <<>>]
    ELSE navigate_list(t1, Head(ks), index,
                       navigate_loop(t1.elems[index + 1], Tail(ks), create_missing))

navigate_loop(target, ks, create_missing) ==
    IF ks = <<>> THEN [exc |-> "none", tree |-> target, loc |-> <<>>]
    ELSE IF target.t = "dict" THEN
        IF HasKey(target, Head(ks))
        THEN navigate_dict(target, Head(ks),
                           navigate_loop(DictGet(target, Head(ks)), Tail(ks), create_missing))
        ELSE IF create_missing
        THEN navigate_dict(DictSet(target, Head(ks), EmptyDict), Head(ks),
                           navigate_loop(EmptyDict, Tail(ks), create_missing))
        ELSE [exc |-> "KeyError", tree |-> target, loc |-> <<>>]
    ELSE IF target.t = "list" THEN
        IF validate_index(Head(ks)).exc # "none"
        THEN [exc |-> "ValueError", tree |-> target, loc |-> <<>>]
        ELSE navigate_index(IF create_missing
                            THEN List(Extend(target.elems, ToInt(Head(ks)), EmptyDict))
                            ELSE target,
                            ks, ToInt(Head(ks)), create_missing)
    ELSE [exc |-> "TypeError", tree |-> target, loc |-> <<>>]

\* (container, final_key) for the result r of the loop
navigated(r, final_key) ==
    [exc |-> r.exc, tree |-> r.tree, loc |-> r.loc, final_key |-> final_key]

\* _navigate_hierarchy: (container, final_key), the container given by the
\* steps loc into the document tree
navigate_hierarchy(d, key, create_missing) ==
    IF Contains(key, "[")
    THEN [exc |-> "TypeError", tree |-> d, loc |-> <<>>, final_key |-> <<>>]
    ELSE navigated(navigate_loop(d, Front(Split(key, ".")), create_missing),
                   Last(Split(key, ".")))

\* the value the steps loc lead to
RECURSIVE Lookup(_, _)
Lookup(tree, loc) ==
    IF loc = <<>> THEN tree
    ELSE IF tree.t = "dict" THEN Lookup(DictGet(tree, Head(loc)), Tail(loc))
    ELSE Lookup(tree.elems[ToInt(Head(loc)) + 1], Tail(loc))

RECURSIVE ReplaceAt(_, _, _)

\* the tree replaced by the branch that leads to v: a mapping on the way
\* loses its other entries
ReplaceAt_alone(tree, loc, v) ==
    IF loc = <<>> THEN v
    ELSE IF tree.t = "dict"
    THEN Dict(<<Item(Head(loc), ReplaceAt(DictGet(tree, Head(loc)), Tail(loc), v))>>)
    ELSE ListSet(tree, ToInt(Head(loc)),
                 ReplaceAt(tree.elems[ToInt(Head(loc)) + 1], Tail(loc), v))

\* the tree with the value the steps loc lead to replaced by v
ReplaceAt(tree, loc, v) ==
    IF loc = <<>> THEN v
    ELSE IF tree.t = "dict"
    THEN DictSet(tree, Head(loc), ReplaceAt(DictGet(tree, Head(loc)), Tail(loc), v))
    ELSE ListSet(tree, ToInt(Head(loc)),
                 ReplaceAt(tree.elems[ToInt(Head(loc)) + 1], Tail(loc), v))

\* the exceptions _access_item catches
Caught == {"KeyError", "IndexError", "ValueError", "TypeError"}

\* _access_item on the container the navigation found: [exc, ret, doc]
access_container(nav, container, value, set_item) ==
    IF container.t = "dict" THEN
        IF set_item
        THEN [exc |-> "none", ret |-> None,
              doc |-> ReplaceAt(nav.tree, nav.loc, DictSet(container, nav.final_key, value))]
        ELSE [exc |-> "none",
              ret |-> IF HasKey(container, nav.final_key)
                      THEN DictGet(container, nav.final_key) ELSE None,
              doc |-> nav.tree]
    ELSE IF container.t = "list" THEN
        IF validate_index(nav.final_key).exc # "none"
        THEN [exc |-> "none", ret |-> None, doc |-> nav.tree]
        ELSE IF set_item
        THEN [exc |-> "none", ret |-> None,
              doc |-> ReplaceAt(nav.tree, nav.loc,
                                ListSet(List(Extend(container.elems, ToInt(nav.final_key),
                                                    None)),
                                        ToInt(nav.final_key), value))]
        ELSE [exc |-> "none",
              ret |-> IF ToInt(nav.final_key) < Len(container.elems)
                      THEN container.elems[ToInt(nav.final_key) + 1] ELSE None,
              doc |-> nav.tree]
    ELSE [exc |-> "none", ret |-> None, doc |-> nav.tree]

\* _access_item once the navigation is done
access_navigated(nav, value, set_item) ==
    IF nav.exc # "none" THEN [exc |-> "none", ret |-> None, doc |-> nav.tree]
    ELSE access_container(nav, Lookup(nav.tree, nav.loc), value, set_item)

\* _access_item once the indirect reference is resolved
access_resolved(d, ri, value, set_item) ==
    IF ri.exc # "none" THEN [exc |-> ri.exc, ret |-> None, doc |-> d]
    ELSE IF ~ri.found THEN [exc |-> "none", ret |-> None, doc |-> d]
    ELSE access_navigated(navigate_hierarchy(d, ri.key, set_item), value, set_item)

\* _access_item, a set taking the key as it is written
access_item_set_literal(d, key0, value, set_item) ==
    IF set_item
    THEN access_resolved(d, [exc |-> "none", found |-> TRUE, key |-> key0], value, set_item)
    ELSE access_resolved(d, replace_indirect(d, key0), value, set_item)

\* _access_item: [exc, ret, doc]
access_item(d, key0, value, set_item) ==
    access_resolved(d, replace_indirect(d, key0), value, set_item)

\* AnyDataHandler.get
handler_get(d, key) == access_item(d, key, None, FALSE)

\* AnyDataHandler.set
handler_set(d, key, value) == access_item(d, key, value, TRUE)

-----------------------------------------------------------------------------
(* The file system and the format codecs *)

\* a file that does not exist
NoFile == [c |-> "absent"]

\* a file of zero bytes
EmptyFile == [c |-> "empty"]

\* a file whose content neither codec can parse
Garbage == [c |-> "garbage"]

\* The text of a document.  json.dump(data, f, indent=4) writes JSON with a
\* line and four spaces of indentation per nesting level for every member;
\* yaml.safe_dump writes the same content in YAML's block layout, for which
\* this text stands as well (JSON text is YAML flow style).
RECURSIVE Spaces(_)
Spaces(n) == IF n = 0 THEN <<>> ELSE <<" ">> \o Spaces(n - 1)

newline_indent(level) == <<"\n">> \o Spaces(4 * level)

\* a string literal with no character escaped
encode_string_raw(s) == <<"\"">> \o s \o <<"\"">>

\* a string literal: the double quote and the backslash are escaped
encode_string(s) == <<"\"">> \o Escaped(s, "\"") \o <<"\"">>

RECURSIVE encode(_, _)
RECURSIVE encode_members(_, _)
RECURSIVE encode_elements(_, _)
encode(v, level) ==
    CASE v.t = "none" -> <<"n", "u", "l", "l">>
      [] v.t = "str"  -> encode_string(v.s)
      [] v.t = "bool" -> IF v.b THEN <<"t", "r", "u", "e">> ELSE <<"f", "a", "l", "s", "e">>
      [] v.t = "dict" ->
            IF v.items = <<>> THEN <<"{", "}">>
            ELSE <<"{">> \o encode_members(v.items, level + 1)
                 \o newline_indent(level) \o <<"}">>
      [] v.t = "list" ->
            IF v.elems = <<>> THEN <<"[", "]">>
            ELSE <<"[">> \o encode_elements(v.elems, level + 1)
                 \o newline_indent(level) \o <<"]">>

encode_members(items, level) ==
    newline_indent(level) \o encode_string(items[1].k) \o <<":", " ">>
    \o encode(items[1].v, level)
    \o (IF Len(items) > 1 THEN <<",">> \o encode_members(Tail(items), level) ELSE <<>>)

encode_elements(elems, level) ==
    newline_indent(level) \o encode(elems[1], level)
    \o (IF Len(elems) > 1 THEN <<",">> \o encode_elements(Tail(elems), level) ELSE <<>>)

\* yaml.safe_dump / json.dump: the file content that encodes document d
dump(d) == [c |-> "doc", text |-> encode(d, 0)]

\* The document of a text, as json.load / yaml.safe_load scan it: the value
\* read at position i and the position after it, or ok = FALSE where the
\* text is malformed.
ScanError == [ok |-> FALSE, v |-> None, i |-> 0]

Scanned(v, i) == [ok |-> TRUE, v |-> v, i |-> i]

RECURSIVE skip_whitespace(_, _)
skip_whitespace(s, i) ==
    IF i <= Len(s) /\ s[i] \in {" ", "\n", "\t", "\r"} THEN skip_whitespace(s, i + 1) ELSE i

\* whether the characters of lit stand at position i of s
Literal(s, i, lit) == i + Len(lit) - 1 <= Len(s) /\ SubSeq(s, i, i + Len(lit) - 1) = lit

\* the string literal whose opening quote precedes position i
RECURSIVE scan_string(_, _, _)
scan_string(s, i, acc) ==
    IF i > Len(s) THEN ScanError
    ELSE IF s[i] = "\"" THEN Scanned(acc, i + 1)
    ELSE IF s[i] = "\\"
    THEN IF i + 1 <= Len(s) /\ s[i + 1] \in {"\"", "\\"}
         THEN scan_string(s, i + 2, Append(acc, s[i + 1]))
         ELSE ScanError
    ELSE scan_string(s, i + 1, Append(acc, s[i]))

RECURSIVE scan_value(_, _)
RECURSIVE scan_object(_, _, _)
RECURSIVE scan_array(_, _, _)

\* what follows a member or an element, d holding those read so far: a
\* comma and the next one, or the closing bracket
scan_next(s, i, d) ==
    IF i > Len(s) THEN ScanError
    ELSE IF s[i] = "," /\ d.t = "dict" THEN scan_object(s, skip_whitespace(s, i + 1), d)
    ELSE IF s[i] = "," /\ d.t = "list" THEN scan_array(s, i + 1, d)
    ELSE IF s[i] = "}" /\ d.t = "dict" THEN Scanned(d, i + 1)
    ELSE IF s[i] = "]" /\ d.t = "list" THEN Scanned(d, i + 1)
    ELSE ScanError

\* the value r of the member named k; a name that occurs twice keeps its
\* last value
scan_member_value(s, k, r, d) ==
    IF ~r.ok THEN ScanError
    ELSE scan_next(s, skip_whitespace(s, r.i), DictSet(d, k, r.v))

\* the colon at position i after the member name k, and the member's value
scan_colon(s, k, i, d) ==
    IF i > Len(s) \/ s[i] # ":" THEN ScanError
    ELSE scan_member_value(s, k, scan_value(s, i + 1), d)

\* the member whose name is the string literal r
scan_member(s, r, d) ==
    IF ~r.ok THEN ScanError ELSE scan_colon(s, r.v, skip_whitespace(s, r.i), d)

\* the members of an object from position i on, d holding those before
scan_object(s, i, d) ==
    IF i > Len(s) \/ s[i] # "\"" THEN ScanError
    ELSE scan_member(s, scan_string(s, i + 1, <<>>), d)

\* the element r of an array
scan_element(s, r, d) ==
    IF ~r.ok THEN ScanError
    ELSE scan_next(s, skip_whitespace(s, r.i), List(Append(d.elems, r.v)))

\* the elements of an array from position i on, d holding those before
scan_array(s, i, d) == scan_element(s, scan_value(s, i), d)

\* an object or an array whose opening bracket precedes position i: empty
\* when the closing bracket stands there
scan_open(s, i, close, d) ==
    IF i <= Len(s) /\ s[i] = close THEN Scanned(d, i + 1)
    ELSE IF d.t = "dict" THEN scan_object(s, i, d)
    ELSE scan_array(s, i, d)

\* a string value from the string literal r
scan_str_value(r) == IF r.ok THEN Scanned(Str(r.v), r.i) ELSE ScanError

\* the value that starts at position i, which holds no whitespace
scan_value_at(s, i) ==
    IF i > Len(s) THEN ScanError
    ELSE IF s[i] = "\"" THEN scan_str_value(scan_string(s, i + 1, <<>>))
    ELSE IF s[i] = "{" THEN scan_open(s, skip_whitespace(s, i + 1), "}", EmptyDict)
    ELSE IF s[i] = "[" THEN scan_open(s, skip_whitespace(s, i + 1), "]", List(<<>>))
    ELSE IF Literal(s, i, <<"n", "u", "l", "l">>) THEN Scanned(None, i + 4)
    ELSE IF Literal(s, i, <<"t", "r", "u", "e">>) THEN Scanned(Bool(TRUE), i + 4)
    ELSE IF Literal(s, i, <<"f", "a", "l", "s", "e">>) THEN Scanned(Bool(FALSE), i + 5)
    ELSE ScanError

scan_value(s, i) == scan_value_at(s, skip_whitespace(s, i))

\* json.load / yaml.safe_load of a whole text: nothing but whitespace may
\* follow the value
decoded(s, r) ==
    IF r.ok /\ skip_whitespace(s, r.i) = Len(s) + 1 THEN [ok |-> TRUE, v |-> r.v]
    ELSE [ok |-> FALSE, v |-> None]

decode(s) == decoded(s, scan_value(s, 1))

\* file_path before any load
NoPath == "None"

StoreClasses == {"YamlConfig", "JsonConfig", "ConfigFile"}

\* the error _load_data ends with when the text cannot be parsed
parse_error(c) ==
    IF c = "YamlConfig" THEN "YAMLError"
    ELSE IF c = "JsonConfig" THEN "ValueError" ELSE "RuntimeError"

\* _load_data on a file that holds text, r being the document decoded
loaded_text(c, content, r) ==
    IF ~r.ok THEN [exc |-> parse_error(c), d |-> None, file |-> content]
    ELSE IF r.v = None /\ c = "ConfigFile"
    THEN [exc |-> "RuntimeError", d |-> None, file |-> NoFile]
    ELSE [exc |-> "none", d |-> r.v, file |-> content]

\* _load_data of the three store classes on an existing file: the exception
\* it raises (or "none"), the document it returns, and the file afterwards
\* (ConfigFile removes a file that parses to nothing)
load_data(c, content) ==
    CASE content.c = "doc" -> loaded_text(c, content, decode(content.text))
      [] content.c = "garbage" ->
            [exc |-> parse_error(c), d |-> None, file |-> content]
      [] content.c = "empty" ->
            IF c = "YamlConfig" THEN [exc |-> "none", d |-> None, file |-> content]
            ELSE IF c = "JsonConfig" THEN [exc |-> "ValueError", d |-> None, file |-> content]
            ELSE [exc |-> "RuntimeError", d |-> None, file |-> NoFile]

\* _save_data of the three store classes: "if data:" dumps, anything else raises
save_data(c, d) ==
    IF Truthy(d) THEN [exc |-> "none", file |-> dump(d)]
    ELSE [exc |-> IF c = "ConfigFile" THEN "RuntimeError" ELSE "ValueError",
          file |-> EmptyFile]

-----------------------------------------------------------------------------
(* DataManager *)

max_snapshots == 6

Min(a, b) == IF a < b THEN a ELSE b

\* the outcome of a call: the operation and its arguments, the exception it
\* raised ("none" when it returned), the value it returned, and for an undo
\* the number of snapshots it found in the history, for a load the number
\* of proxy registrations it found
Outcome(op, args, exc, ret) ==
    [op |-> op, args |-> args, exc |-> exc, ret |-> ret,
     n |-> IF op = "snapshot_undo" THEN Len(snapshots)
           ELSE IF op = "load" THEN Cardinality(proxy_mapping)
           ELSE 0]

\* pushed, evicting the oldest snapshot at capacity
pushed_evict_oldest(snaps, d) ==
    LET kept == IF Len(snaps) >= max_snapshots THEN Tail(snaps) ELSE snaps
    IN  Append(kept, d)

\* pushed, evicting nothing
pushed_no_evict(snaps, d) == Append(snaps, d)

\* the snapshot stack after snapshot_push of document d: at capacity the
\* second-oldest snapshot goes; the snapshot is a deep copy
pushed(snaps, d) ==
    LET kept == IF Len(snaps) >= max_snapshots
                THEN <<snaps[1]>> \o SubSeq(snaps, 3, Len(snaps))
                ELSE snaps
    IN  Append(kept, d)

\* the positions that hold the object of the document after snapshot_push:
\* copy.deepcopy gives the new snapshot an object of its own; at capacity
\* position 2 goes and the later positions move down
pushed_shares(snaps, sh) ==
    IF Len(snaps) >= max_snapshots
    THEN {i \in sh : i = 1} \cup {i - 1 : i \in {j \in sh : j > 2}}
    ELSE sh

\* DataManager.snapshot_push
snapshot_push ==
    /\ snapshots' = pushed(snapshots, data)
    /\ shared' = pushed_shares(snapshots, shared)
    /\ pushes' = Min(pushes + 1, max_snapshots + 1)
    /\ result' = Outcome("snapshot_push", <<>>, "none", None)
    /\ UNCHANGED <<cls, data, file_path, unsaved_changes, proxy_mapping, files, loaded>>
    /\ touched' = {}
    /\ UNCHANGED widgetVars

\* undone, leaving the restored snapshot on the stack
undone_no_pop(snaps) == [data |-> Last(snaps), snapshots |-> snaps]

\* undone, consuming the last remaining snapshot as well
undone_consume(snaps) == [data |-> Last(snaps), snapshots |-> Front(snaps)]

\* the document and the stack after snapshot_undo on a non-empty stack: the
\* popped snapshot, or a deep copy of the only one left
undone(snaps) ==
    IF Len(snaps) > 1 THEN [data |-> Last(snaps), snapshots |-> Front(snaps)]
    ELSE [data |-> snaps[1], snapshots |-> snaps]

\* undone_shares, the only snapshot left becoming the document itself
undone_shares_no_copy(snaps, sh) ==
    IF Len(snaps) > 1
    THEN IF Len(snaps) \in sh THEN sh \ {Len(snaps)} ELSE {}
    ELSE {1}

\* the positions that hold the object of the document after snapshot_undo on
\* a non-empty stack: the popped snapshot is the document now and has left
\* the stack; the only one left is restored as a copy.deepcopy
undone_shares(snaps, sh) ==
    IF Len(snaps) > 1
    THEN IF Len(snaps) \in sh THEN sh \ {Len(snaps)} ELSE {}
    ELSE {}

\* DataManager.snapshot_undo
snapshot_undo ==
    /\ IF snapshots = <<>>
       THEN UNCHANGED <<data, snapshots, unsaved_changes, pushes, shared>>
       ELSE /\ data' = undone(snapshots).data
            /\ snapshots' = undone(snapshots).snapshots
            /\ shared' = undone_shares(snapshots, shared)
            /\ unsaved_changes' = TRUE
            /\ pushes' = 0
    /\ result' = Outcome("snapshot_undo", <<>>, "none", None)
    /\ UNCHANGED <<cls, file_path, proxy_mapping, files, loaded>>
    /\ touched' = {}
    /\ UNCHANGED widgetVars

\* init_data, pushing onto the history it found
init_data_keep_history(d) ==
    /\ data' = d
    /\ snapshots' = pushed(snapshots, d)
    /\ shared' = {}
    /\ pushes' = Min(pushes + 1, max_snapshots + 1)
    /\ unsaved_changes' = TRUE

\* DataManager.init_data: a fresh history holding one snapshot of the new
\* document; the store is marked as having unsaved changes
init_data(d) ==
    /\ data' = d
    /\ snapshots' = pushed(<<>>, d)
    /\ shared' = {}
    /\ pushes' = 1
    /\ unsaved_changes' = TRUE

\* load, keeping the proxy registrations it found
load_keep_proxies(path, io_ok) ==
    /\ UNCHANGED proxy_mapping
    /\ file_path' = path
    /\ IF files[path] = NoFile \/ ~io_ok
       THEN /\ result' = Outcome("load", <<path>>, "none", Bool(FALSE))
            /\ UNCHANGED <<data, snapshots, unsaved_changes, files, loaded, pushes, shared>>
       ELSE LET r == load_data(cls, files[path]) IN
            /\ files' = [files EXCEPT ![path] = r.file]
            /\ IF r.exc # "none"
               THEN /\ result' = Outcome("load", <<path>>, "none", Bool(FALSE))
                    /\ UNCHANGED <<data, snapshots, unsaved_changes, loaded, pushes, shared>>
               ELSE /\ init_data(r.d)
                    /\ loaded' = [ok |-> TRUE, d |-> r.d]
                    /\ result' = Outcome("load", <<path>>, "none", Bool(TRUE))
    /\ UNCHANGED cls
    /\ touched' = {}
    /\ UNCHANGED widgetVars

\* DataManager.load(path); io_ok is whether open() can read an existing file
load(path, io_ok) ==
    /\ proxy_mapping' = {}
    /\ file_path' = path
    /\ IF files[path] = NoFile \/ ~io_ok
       THEN /\ result' = Outcome("load", <<path>>, "none", Bool(FALSE))
            /\ UNCHANGED <<data, snapshots, unsaved_changes, files, loaded, pushes, shared>>
       ELSE LET r == load_data(cls, files[path]) IN
            /\ files' = [files EXCEPT ![path] = r.file]
            /\ IF r.exc # "none"
               THEN /\ result' = Outcome("load", <<path>>, "none", Bool(FALSE))
                    /\ UNCHANGED <<data, snapshots, unsaved_changes, loaded, pushes, shared>>
               ELSE /\ init_data(r.d)
                    /\ loaded' = [ok |-> TRUE, d |-> r.d]
                    /\ result' = Outcome("load", <<path>>, "none", Bool(TRUE))
    /\ UNCHANGED cls
    /\ touched' = {}
    /\ UNCHANGED widgetVars

\* What "with open(file_path, 'w') as f: _save_data(f, data)" leaves behind:
\* the exception that ends it, the file, and whether _save_data got to clear
\* unsaved_changes.  Fault "open" is an open() that fails; "write" a dump that
\* raises after open() truncated the file, leaving it empty or partly
\* written; "close" a buffered write that fails when the file is closed, after
\* _save_data has returned.
SaveFaults == {"none", "open", "write", "close"}

\* written, with _save_data clearing unsaved_changes before it dumps
written_clear_first(fault, partial) ==
    IF fault = "open"
    THEN [exc |-> "OSError", file |-> files[file_path], cleared |-> FALSE]
    ELSE LET r == save_data(cls, data) IN
         IF r.exc # "none" THEN [exc |-> r.exc, file |-> r.file, cleared |-> FALSE]
         ELSE IF fault \in {"write", "close"}
         THEN [exc |-> "OSError", file |-> partial, cleared |-> TRUE]
         ELSE [exc |-> "none", file |-> r.file, cleared |-> TRUE]

written(fault, partial) ==
    IF fault = "open"
    THEN [exc |-> "OSError", file |-> files[file_path], cleared |-> FALSE]
    ELSE LET r == save_data(cls, data) IN
         IF r.exc # "none" THEN [exc |-> r.exc, file |-> r.file, cleared |-> FALSE]
         ELSE IF fault = "write" THEN [exc |-> "OSError", file |-> partial, cleared |-> FALSE]
         ELSE IF fault = "close" THEN [exc |-> "OSError", file |-> partial, cleared |-> TRUE]
         ELSE [exc |-> "none", file |-> r.file, cleared |-> TRUE]

\* ConfigFile.save (overrides DataManager.save): no snapshot, errors re-raised
ConfigFile_save(fault, partial) ==
    /\ UNCHANGED <<snapshots, pushes, shared>>
    /\ IF ~unsaved_changes
       THEN /\ result' = Outcome("save", <<fault>>, "none", None)
            /\ UNCHANGED <<files, unsaved_changes>>
       ELSE IF file_path = NoPath
       THEN /\ result' = Outcome("save", <<fault>>, "RuntimeError", None)
            /\ UNCHANGED <<files, unsaved_changes>>
       ELSE LET w == written(fault, partial) IN
            /\ files' = [files EXCEPT ![file_path] = w.file]
            /\ IF w.exc # "none"
               THEN /\ result' = Outcome("save", <<fault>>, "RuntimeError", None)
                    /\ unsaved_changes' = (unsaved_changes /\ ~w.cleared)
               ELSE /\ result' = Outcome("save", <<fault>>, "none", None)
                    /\ unsaved_changes' = FALSE

\* DataManager.save, snapshotting and writing whether or not the store is dirty
DataManager_save_always(fault, partial) ==
    IF file_path = NoPath \/ data = None
    THEN /\ result' = Outcome("save", <<fault>>, "ValueError", None)
         /\ UNCHANGED <<files, unsaved_changes, snapshots, pushes, shared>>
    ELSE LET w == written(fault, partial) IN
         /\ snapshots' = pushed(snapshots, data)
         /\ shared' = pushed_shares(snapshots, shared)
         /\ pushes' = Min(pushes + 1, max_snapshots + 1)
         /\ files' = [files EXCEPT ![file_path] = w.file]
         /\ IF w.exc # "none"
            THEN /\ result' = Outcome("save", <<fault>>, "none", Bool(FALSE))
                 /\ unsaved_changes' = (unsaved_changes /\ ~w.cleared)
            ELSE /\ result' = Outcome("save", <<fault>>, "none", Bool(TRUE))
                 /\ unsaved_changes' = FALSE

\* DataManager.save, as YamlConfig and JsonConfig inherit it
DataManager_save(fault, partial) ==
    IF file_path = NoPath \/ data = None
    THEN /\ result' = Outcome("save", <<fault>>, "ValueError", None)
         /\ UNCHANGED <<files, unsaved_changes, snapshots, pushes, shared>>
    ELSE IF ~unsaved_changes
    THEN /\ result' = Outcome("save", <<fault>>, "none", None)
         /\ UNCHANGED <<files, unsaved_changes, snapshots, pushes, shared>>
    ELSE LET w == written(fault, partial) IN
         /\ snapshots' = pushed(snapshots, data)
         /\ shared' = pushed_shares(snapshots, shared)
         /\ pushes' = Min(pushes + 1, max_snapshots + 1)
         /\ files' = [files EXCEPT ![file_path] = w.file]
         /\ IF w.exc # "none"
            THEN /\ result' = Outcome("save", <<fault>>, "none", Bool(FALSE))
                 /\ unsaved_changes' = (unsaved_changes /\ ~w.cleared)
            ELSE /\ result' = Outcome("save", <<fault>>, "none", Bool(TRUE))
                 /\ unsaved_changes' = FALSE

\* save() of the instance's class
save(fault, partial) ==
    /\ IF cls = "ConfigFile" THEN ConfigFile_save(fault, partial)
       ELSE DataManager_save(fault, partial)
    /\ UNCHANGED <<cls, data, file_path, proxy_mapping, loaded>>
    /\ touched' = {}
    /\ UNCHANGED widgetVars

\* DataManager.get, given the result r of __getitem__: the default for None
got_value(r, default) ==
    [exc |-> r.exc,
     ret |-> IF r.exc # "none" THEN None
             ELSE IF r.ret # None THEN r.ret ELSE default]

\* DataManager.get on document d
got(d, key, default) == got_value(handler_get(d, key), default)

\* what a get that gave g leaves behind
get_outcome(key, g) == Outcome("get", <<Str(key)>>, g.exc, g.ret)

\* DataManager.get
get(key, default) ==
    /\ result' = get_outcome(key, got(data, key, default))
    /\ UNCHANGED storeVars
    /\ touched' = {}
    /\ UNCHANGED widgetVars

\* DataManager.insert: the handler is always an AnyDataHandler, which has no
\* insert method
insert(key, value) ==
    /\ result' = Outcome("insert", <<Str(key), value>>, "AttributeError", None)
    /\ UNCHANGED storeVars
    /\ touched' = {}
    /\ UNCHANGED widgetVars

\* DataManager.delete: the handler is always an AnyDataHandler, which has no
\* delete method
delete(key) ==
    /\ result' = Outcome("delete", <<Str(key)>>, "AttributeError", None)
    /\ UNCHANGED storeVars
    /\ touched' = {}
    /\ UNCHANGED widgetVars

\* the proxy_mapping after add_proxy, an entry for a registered key being
\* replaced
added_overwrite(mapping, proxy_file, keys) ==
    [exc |-> "none",
     mapping |-> {e \in mapping : \A i \in 1..Len(keys) : e.key # keys[i]}
                 \cup {[key |-> keys[i], file |-> proxy_file] : i \in 1..Len(keys)}]

\* the proxy_mapping after add_proxy(proxy_file, keys) and the exception
\* that ended it: the keys are registered in order, up to the first one
\* that is registered already
RECURSIVE added(_, _, _)
added(mapping, proxy_file, keys) ==
    IF keys = <<>> THEN [exc |-> "none", mapping |-> mapping]
    ELSE IF \E e \in mapping : e.key = Head(keys)
    THEN [exc |-> "ValueError", mapping |-> mapping]
    ELSE added(mapping \cup {[key |-> Head(keys), file |-> proxy_file]},
               proxy_file, Tail(keys))

\* DataManager.add_proxy
add_proxy(proxy_file, keys) ==
    /\ proxy_mapping' = added(proxy_mapping, proxy_file, keys).mapping
    /\ result' = Outcome("add_proxy", <<proxy_file, keys>>,
                         added(proxy_mapping, proxy_file, keys).exc, None)
    /\ UNCHANGED <<cls, data, file_path, unsaved_changes, snapshots, files, loaded, pushes, shared>>
    /\ touched' = {}
    /\ UNCHANGED widgetVars

\* _get_proxy, giving every registered proxy file
get_proxy_any_key(key) == {e.file : e \in proxy_mapping}

\* DataManager._get_proxy: the files registered for key
get_proxy(key) == {e.file : e \in {m \in proxy_mapping : m.key = key}}

\* the history after the document's object has been changed in place to d:
\* a snapshot that is that object shows the change
seen(snaps, sh, d) == [i \in 1..Len(snaps) |-> IF i \in sh THEN d ELSE snaps[i]]

\* DataManager.set, given the result r of __setitem__; touch_ok is whether
\* touch_file can open the proxy file
store_set_item(key, value, touch_ok, r) ==
    /\ unsaved_changes' = TRUE
    /\ data' = r.doc
    /\ snapshots' = seen(snapshots, shared, r.doc)
    /\ IF r.exc # "none"
       THEN result' = Outcome("set", <<Str(key), value>>, r.exc, None) /\ touched' = {}
       ELSE IF get_proxy(key) = {}
       THEN result' = Outcome("set", <<Str(key), value>>, "none", None) /\ touched' = {}
       ELSE IF touch_ok
       THEN result' = Outcome("set", <<Str(key), value>>, "none", None) /\ touched' = get_proxy(key)
       ELSE result' = Outcome("set", <<Str(key), value>>, "OSError", None) /\ touched' = {}
    /\ UNCHANGED <<cls, file_path, proxy_mapping, files, loaded, pushes, shared>>

\* DataManager.set, as it changes the store
store_set(key, value, touch_ok) ==
    store_set_item(key, value, touch_ok, handler_set(data, key, value))

\* DataManager.set
set(key, value, touch_ok) ==
    /\ store_set(key, value, touch_ok)
    /\ UNCHANGED widgetVars

-----------------------------------------------------------------------------
(* structured_text: the text codec.  A regular expression is modelled by   *)
(* the recogniser of its language, on texts without a line break.          *)

\* the characters \s matches
Whitespace == {" ", "\t", "\r", "\f"}

\* the characters \w matches
WordChars ==
    {"_", "0", "1", "2", "3", "4", "5", "6", "7", "8", "9",
     "a", "b", "c", "d", "e", "f", "g", "h", "i", "j", "k", "l", "m",
     "n", "o", "p", "q", "r", "s", "t", "u", "v", "w", "x", "y", "z",
     "A", "B", "C", "D", "E", "F", "G", "H", "I", "J", "K", "L", "M",
     "N", "O", "P", "Q", "R", "S", "T", "U", "V", "W", "X", "Y", "Z"}

\* the characters ['\"] matches
Quotes == {"'", "\""}

\* s without the whitespace at its start
RECURSIVE LStrip(_)
LStrip(s) == IF s # <<>> /\ Head(s) \in Whitespace THEN LStrip(Tail(s)) ELSE s

\* s without the whitespace at its end
RECURSIVE RStrip(_)
RStrip(s) == IF s # <<>> /\ Last(s) \in Whitespace THEN RStrip(Front(s)) ELSE s

\* index of the first character of s that is in set cs (0 when there is none)
FirstIn(s, cs) ==
    IF \E i \in 1..Len(s) : s[i] \in cs
    THEN CHOOSE i \in 1..Len(s) : s[i] \in cs /\ \A j \in 1..(i - 1) : s[j] \notin cs
    ELSE 0

\* DataCategory members, and None for a category not yet known
DataCategories == {"SCALAR", "LIST", "DICT", "COMPLEX"}

\* the names of the patterns a field can hold: the two of structured_text,
\* the caller's ^\w+$, and None
DICT_PATTERN == "DICT_PATTERN"

LIST_PATTERN == "LIST_PATTERN"

WordPattern == "^\\w+$"

NoPattern == "None"

\* isinstance(v, (int, float, str, bool))
IsScalar(v) == v.t \in {"str", "bool"}

\* a rendering that leaves the quotes of list elements out
to_text_bare(item) ==
    IF item.t = "dict"
    THEN Join([i \in 1..Len(item.items) |->
                   item.items[i].k \o <<":", " ">> \o PyStr(item.items[i].v)], <<",", " ">>)
    ELSE IF item.t = "list"
    THEN Join([i \in 1..Len(item.elems) |-> PyStr(item.elems[i])], <<",", " ">>)
    ELSE PyStr(item)

\* to_text
to_text(item) ==
    IF item.t = "dict"
    THEN Join([i \in 1..Len(item.items) |->
                   item.items[i].k \o <<":", " ">> \o PyStr(item.items[i].v)], <<",", " ">>)
    ELSE IF item.t = "list"
    THEN Join([i \in 1..Len(item.elems) |->
                   <<"'">> \o PyStr(item.elems[i]) \o <<"'">>], <<",", " ">>)
    ELSE PyStr(item)

\* data_category
data_category(item) ==
    IF item = None THEN "SCALAR"
    ELSE IF IsScalar(item) THEN "SCALAR"
    ELSE IF item.t = "list"
    THEN IF \A i \in 1..Len(item.elems) : IsScalar(item.elems[i]) THEN "LIST" ELSE "COMPLEX"
    ELSE IF item.t = "dict"
    THEN IF \A i \in 1..Len(item.items) : IsScalar(item.items[i].v) THEN "DICT" ELSE "COMPLEX"
    ELSE "COMPLEX"

\* get_regex
get_regex(item) ==
    IF data_category(item) = "DICT" THEN DICT_PATTERN
    ELSE IF data_category(item) = "LIST" THEN LIST_PATTERN
    ELSE NoPattern

\* what follows an item's closing quote in LIST_PATTERN, for opening quote q:
\* (?:\s*,\s*\1([^'\"]*?)\1)*\s*\s* up to the end of the text
RECURSIVE list_rest(_, _)
list_rest(s, q) ==
    LET t == LStrip(s) IN
    \/ t = <<>>
    \/ /\ Head(t) = ","
       /\ LET u == LStrip(Tail(t)) IN
          /\ u # <<>> /\ Head(u) = q
          /\ FirstIn(Tail(u), Quotes) # 0
          /\ Tail(u)[FirstIn(Tail(u), Quotes)] = q
          /\ list_rest(SubSeq(Tail(u), FirstIn(Tail(u), Quotes) + 1, Len(Tail(u))), q)

\* re.fullmatch(LIST_PATTERN, text)
list_fullmatch(text) ==
    LET t == LStrip(text) IN
    /\ t # <<>> /\ Head(t) \in Quotes
    /\ FirstIn(Tail(t), Quotes) # 0
    /\ Tail(t)[FirstIn(Tail(t), Quotes)] = Head(t)
    /\ list_rest(SubSeq(Tail(t), FirstIn(Tail(t), Quotes) + 1, Len(Tail(t))), Head(t))

\* re.findall(r"['\"](.*?)['\"]", text): from each quote to the next one
RECURSIVE list_findall(_)
list_findall(text) ==
    LET i == FirstIn(text, Quotes) IN
    IF i = 0 THEN <<>>
    ELSE LET rest == SubSeq(text, i + 1, Len(text))
             j    == FirstIn(rest, Quotes)
         IN  IF j = 0 THEN <<>>
             ELSE <<Str(SubSeq(rest, 1, j - 1))>>
                  \o list_findall(SubSeq(rest, j + 1, Len(rest)))

\* one match of DICT_PATTERN without its closing comma: \s* key \s* : \s*
\* value \s*, the key not starting with whitespace, a colon or a comma and
\* holding no colon, the value of one character or more
dict_pair_match(seg) ==
    LET t == LStrip(seg) IN
    /\ t # <<>> /\ Head(t) # ":"
    /\ Contains(t, ":")
    /\ IndexOf(t, ":") < Len(t)

\* the groups (key, value) of that match: the lazy key and value leave the
\* whitespace around them to \s*, and a value of whitespace only is its
\* last character
dict_pair_groups(seg) ==
    LET t == LStrip(seg)
        c == IndexOf(t, ":")
        r == SubSeq(t, c + 1, Len(t))
    IN  [k |-> RStrip(SubSeq(t, 1, c - 1)),
         v |-> IF LStrip(r) = <<>> THEN <<Last(r)>> ELSE RStrip(LStrip(r))]

\* re.fullmatch(rf"({DICT_PATTERN})*", text): pairs closed by a comma, the
\* last one by a comma or by the end of the text
dict_fullmatch(text) ==
    LET segs == Split(text, ",") IN
    /\ \A i \in 1..(Len(segs) - 1) : dict_pair_match(segs[i])
    /\ \/ dict_pair_match(Last(segs))
       \/ Last(segs) = <<>>

\* {key: value for key, value in re.findall(DICT_PATTERN, text)}, for a
\* text that passed the full match
RECURSIVE dict_of_pairs(_, _)
dict_of_pairs(segs, d) ==
    IF segs = <<>> THEN d
    ELSE IF Head(segs) = <<>> THEN dict_of_pairs(Tail(segs), d)
    ELSE dict_of_pairs(Tail(segs),
                       DictSet(d, dict_pair_groups(Head(segs)).k,
                               Str(dict_pair_groups(Head(segs)).v)))

\* parse_list: [exc, data]
parse_list(text) ==
    IF text = <<>> THEN [exc |-> "none", data |-> List(<<>>)]
    ELSE IF ~list_fullmatch(text) THEN [exc |-> "ValueError", data |-> None]
    ELSE [exc |-> "none", data |-> List(list_findall(text))]

\* parse_dict: [exc, data]
parse_dict(text) ==
    IF text = <<>> THEN [exc |-> "none", data |-> EmptyDict]
    ELSE IF ~dict_fullmatch(text) THEN [exc |-> "ValueError", data |-> None]
    ELSE [exc |-> "none", data |-> dict_of_pairs(Split(text, ","), EmptyDict)]

\* re.fullmatch(regex, value) for the patterns a field can hold
fullmatch(regex, value) ==
    CASE regex = WordPattern  -> value # <<>> /\ \A i \in 1..Len(value) : value[i] \in WordChars
      [] regex = LIST_PATTERN -> list_fullmatch(value)
      [] regex = DICT_PATTERN -> value # <<>> /\ Head(Split(value, ",")) # <<>>
                                 /\ dict_pair_match(Head(Split(value, ",")))
                                 /\ Len(Split(value, ",")) <= 2
                                 /\ (Len(Split(value, ",")) = 2 => Split(value, ",")[2] = <<>>)

\* validate_format
validate_format(value, regex) ==
    IF value # <<>> /\ regex # NoPattern THEN fullmatch(regex, value) ELSE TRUE

\* parse_text: [data, is_valid]
parse_text(text, category, regex) ==
    IF category = "LIST"
    THEN IF parse_list(text).exc = "none"
         THEN [data |-> parse_list(text).data, is_valid |-> TRUE]
         ELSE [data |-> Str(text), is_valid |-> FALSE]
    ELSE IF category = "DICT"
    THEN IF parse_dict(text).exc = "none"
         THEN [data |-> parse_dict(text).data, is_valid |-> TRUE]
         ELSE [data |-> Str(text), is_valid |-> FALSE]
    ELSE IF category = "SCALAR"
    THEN [data |-> Str(text), is_valid |-> validate_format(text, regex)]
    ELSE [data |-> Str(text), is_valid |-> FALSE]

-----------------------------------------------------------------------------
(* ItemWidget: a line_edit bound to the key WidgetKey of the store.  The   *)
(* control emits textChanged when its text changes, whether the user or    *)
(* set_text changed it, and the signal runs on_widget_changed.  Of the      *)
(* caller's callback the model keeps the calls made: (key, text).          *)

WidgetKey == <<"A">>

\* the calls of the callback in a run of on_widget_changed for text, which
\* runs into self.callback(key, text) unless config.set ended it with the
\* exception exc
callbacks(text, exc) ==
    IF exc # "none" THEN <<>> ELSE <<[key |-> WidgetKey, text |-> text]>>

\* an edit handler that writes what it parsed without looking at is_valid
on_widget_changed_unchecked(text, category, regex, last, touch_ok) ==
    /\ is_valid' = parse_text(text, category, regex).is_valid
    /\ store_set(WidgetKey, parse_text(text, category, regex).data, touch_ok)
    /\ notified' = callbacks(text, result'.exc)

\* ItemWidget.on_widget_changed for the text of the control, under the
\* field's category and pattern; last is the outcome of the store call that
\* came before it, touch_ok whether touch_file can open a proxy file
on_widget_changed(text, category, regex, last, touch_ok) ==
    LET p == parse_text(text, category, regex) IN
    /\ is_valid' = p.is_valid
    /\ IF p.is_valid
       THEN /\ store_set(WidgetKey, p.data, touch_ok)
            /\ notified' = callbacks(text, result'.exc)
       ELSE /\ result' = last
            /\ touched' = {}
            /\ UNCHANGED storeVars
            /\ notified' = callbacks(text, "none")

\* the user changes the text of the control to text
edit(text, touch_ok) ==
    /\ text # widget_text
    /\ widget_text' = text
    /\ on_widget_changed(text, value_type, rgx, result, touch_ok)
    /\ UNCHANGED <<value_type, rgx>>

\* ItemWidget.display: config.get, then for a truthy value the category and
\* the pattern are fixed if they were not, and set_text puts the encoded
\* value into the control
display(touch_ok) ==
    LET g == got(data, WidgetKey, None) IN
    IF g.exc # "none" \/ ~Truthy(g.ret)
    THEN /\ result' = Outcome("get", <<Str(WidgetKey)>>, g.exc, g.ret)
         /\ touched' = {}
         /\ UNCHANGED storeVars
         /\ UNCHANGED widgetVars
    ELSE LET category == IF value_type = "None" THEN data_category(g.ret) ELSE value_type
             regex    == IF rgx = NoPattern THEN get_regex(g.ret) ELSE rgx
         IN  /\ value_type' = category
             /\ rgx' = regex
             /\ widget_text' = to_text(g.ret)
             /\ IF to_text(g.ret) # widget_text
                THEN on_widget_changed(to_text(g.ret), category, regex,
                                       Outcome("get", <<Str(WidgetKey)>>, "none", g.ret),
                                       touch_ok)
                ELSE /\ result' = Outcome("get", <<Str(WidgetKey)>>, "none", g.ret)
                     /\ touched' = {}
                     /\ UNCHANGED storeVars
                     /\ UNCHANGED <<is_valid, notified>>

-----------------------------------------------------------------------------
(* The store: a DataManager instance from construction on, with a small    *)
(* file system and flat documents.                                         *)

kA == <<"A">>

vx == Str(<<"x">>)

vy == Str(<<"y">>)

FilePaths == {"f1", "f2"}

\* the file system the store starts with: f1 holds a document, f2 does not
\* exist (empty and unparseable files come from failed writes)
StoreFileSystems ==
    { [p \in FilePaths |-> IF p = "f1" THEN dump(Dict(<<Item(kA, vx)>>)) ELSE NoFile] }

\* the same, and one where f1 holds an empty mapping
EditFileSystems ==
    StoreFileSystems \cup { [p \in FilePaths |-> IF p = "f1" THEN dump(EmptyDict) ELSE NoFile] }

StoreKeys == {kA}

StoreValues == {vx, vy}

\* ItemWidget.__init__ for a line_edit with an empty initial value; options
\* is the caller's pattern
ItemWidget_init(options) ==
    /\ value_type = "None"
    /\ rgx = options
    /\ is_valid = FALSE
    /\ widget_text = <<>>
    /\ notified = <<>>

\* DataManager.__init__, in a file system of fs
DataManager_init(fs) ==
    /\ cls \in StoreClasses
    /\ data = None
    /\ file_path = NoPath
    /\ unsaved_changes = FALSE
    /\ snapshots = <<>>
    /\ proxy_mapping = {}
    /\ files \in fs
    /\ result = Outcome("init", <<>>, "none", None)
    /\ touched = {}
    /\ loaded = [ok |-> FALSE, d |-> None]
    /\ pushes = 0
    /\ shared = {}

\* a store and a widget without a pattern
Construct(fs) == DataManager_init(fs) /\ ItemWidget_init(NoPattern)

Init == Construct(StoreFileSystems)

\* The store under load, set, snapshot_push, snapshot_undo and save, where
\* reading never fails on an existing file and a save fails only in open().
Next ==
    \/ \E path \in FilePaths : load(path, TRUE)
    \/ \E key \in StoreKeys, value \in StoreValues : set(key, value, TRUE)
    \/ snapshot_push
    \/ snapshot_undo
    \/ \E fault \in {"none", "open"} : save(fault, EmptyFile)

Spec == Init /\ [][Next]_vars

\* The store under load, set, insert, delete, snapshot_undo and save, with
\* every I/O fault and one value to write.
InitEdit == Construct(EditFileSystems)

EditValues == {vy}

NextEdit ==
    \/ \E path \in FilePaths, io_ok \in BOOLEAN : load(path, io_ok)
    \/ \E key \in StoreKeys, value \in EditValues : set(key, value, TRUE)
    \/ \E key \in StoreKeys, value \in EditValues : insert(key, value)
    \/ \E key \in StoreKeys : delete(key)
    \/ snapshot_undo
    \/ \E fault \in SaveFaults, partial \in {EmptyFile, Garbage} : save(fault, partial)

SpecEdit == InitEdit /\ [][NextEdit]_vars

\* The path layer: a store that sets and gets dotted paths of up to MaxDepth
\* segments, starting from the document of f1.
MaxDepth == 2

PathSegs == {<<"A">>, <<"B">>}

PathKeys ==
    { Join(p, <<".">>) : p \in UNION { [1..n -> PathSegs] : n \in 1..MaxDepth } }

PathValues == {Bool(FALSE)}

InitPath == Init /\ cls = "JsonConfig"

NextPath ==
    \/ \E path \in {"f1"} : load(path, TRUE)
    \/ \E key \in PathKeys, value \in PathValues : set(key, value, TRUE)
    \/ \E key \in PathKeys : get(key, None)

SpecPath == InitPath /\ [][NextPath]_vars

-----------------------------------------------------------------------------
(* Saving and loading again: the three store classes on nested documents   *)
(* whose strings hold the characters the file format escapes.              *)

\* the saves explored after one load
MaxSaves == 2

RoundKeys == {<<"A">>, <<"B", ".", "A">>}

RoundValues == {Str(<<"\"", "\\">>), List(<<Bool(TRUE), None>>)}

InitRound == Init

NextRound ==
    \/ \E path \in {"f1"} : load(path, TRUE)
    \/ \E key \in RoundKeys, value \in RoundValues : set(key, value, TRUE)
    \/ pushes <= MaxSaves /\ save("none", EmptyFile)

SpecRound == InitRound /\ [][NextRound]_vars

-----------------------------------------------------------------------------
(* Proxy files: two proxy files registered for the keys A and B of a flat  *)
(* document, and a touch_file that can fail.                               *)

kB == <<"B">>

ProxyFiles == {"p1", "p2"}

ProxyKeys == {kA, kB}

\* the key lists of add_proxy: one key, or both in either order
ProxyKeyLists == {<<kA>>, <<kB>>, <<kA, kB>>, <<kB, kA>>}

InitProxy == Init /\ cls = "JsonConfig"

NextProxy ==
    \/ \E path \in FilePaths : load(path, TRUE)
    \/ \E proxy_file \in ProxyFiles, keys \in ProxyKeyLists : add_proxy(proxy_file, keys)
    \/ \E key \in ProxyKeys, touch_ok \in BOOLEAN : set(key, vy, touch_ok)

SpecProxy == InitProxy /\ [][NextProxy]_vars

-----------------------------------------------------------------------------
(* Sequence-rooted documents: a store loaded from a file that holds a list *)
(* of two strings, edited by index.                                        *)

ListFileSystems ==
    { [p \in FilePaths |-> IF p = "f1" THEN dump(List(<<vx, vy>>)) ELSE NoFile] }

\* the indices 0, 1 and 2, as set, insert and delete are given them
ListKeys == {<<"0">>, <<"1">>, <<"2">>}

InitList ==
    /\ DataManager_init(ListFileSystems)
    /\ cls = "JsonConfig"
    /\ ItemWidget_init(NoPattern)

NextList ==
    \/ \E path \in {"f1"} : load(path, TRUE)
    \/ \E key \in ListKeys, value \in StoreValues : set(key, value, TRUE)
    \/ \E key \in ListKeys, value \in StoreValues : insert(key, value)
    \/ \E key \in ListKeys : delete(key)

SpecList == InitList /\ [][NextList]_vars

-----------------------------------------------------------------------------
(* Indirect and wildcard paths: a mapping-rooted document with the         *)
(* top-level references R and Q and the mapping M, and a sequence-rooted   *)
(* one.                                                                    *)

IndirectDocument ==
    Dict(<<Item(<<"R">>, Str(<<"A">>)), Item(<<"Q">>, Str(<<"B">>)),
           Item(<<"M">>, Dict(<<Item(<<"A">>, Str(<<"x">>)),
                                Item(<<"B">>, Str(<<"y">>))>>))>>)

IndirectFileSystems ==
    { [p \in FilePaths |-> IF p = "f1" THEN dump(IndirectDocument)
                           ELSE dump(List(<<Str(<<"x">>)>>))] }

\* paths that are set: the reference, through the reference into the
\* mapping M and into the scalar R, through a reference that no key holds,
\* and the wildcard
IndirectSetKeys ==
    {<<"R">>, <<"M", ".", "@", "R">>, <<"R", ".", "@", "R">>,
     <<"M", ".", "@", "X">>, <<"M", ".", "*">>}

\* paths that are read: through the references, the wildcard, and the
\* members of M by name
IndirectGetKeys ==
    {<<"M", ".", "@", "R">>, <<"M", ".", "@", "Q">>, <<"M", ".", "@", "X">>,
     <<"M", ".", "*">>, <<"M", ".", "A">>, <<"M", ".", "B">>}

IndirectValues == {Str(<<"A">>), Str(<<"B">>), Str(<<"@", "Q">>)}

InitIndirect ==
    /\ DataManager_init(IndirectFileSystems)
    /\ cls = "JsonConfig"
    /\ ItemWidget_init(NoPattern)

NextIndirect ==
    \/ \E path \in FilePaths : load(path, TRUE)
    \/ \E key \in IndirectSetKeys, value \in IndirectValues : set(key, value, TRUE)
    \/ \E key \in IndirectGetKeys : get(key, None)

SpecIndirect == InitIndirect /\ [][NextIndirect]_vars

\* The field binding: a JSON store and a widget on key A, which holds a
\* scalar, a list or a dict in f1; the user types any text of up to
\* MaxTextLen characters of TextChars, or one of LongTexts.
MaxTextLen == 2

TextChars == {"a", "'", ",", ":"}

LongTexts ==
    { <<"'", "a", "'">>,
      <<"'", "a", "'", ",", " ", "'", "a", "a", "'">>,
      <<"a", ":", "a">>,
      <<"a", ":", " ", "a", ",", " ", "a", "a", ":", " ", "a">>,
      <<"a", "a", "a">> }

EditTexts == UNION { [1..n -> TextChars] : n \in 0..MaxTextLen } \cup LongTexts

WidgetValues ==
    { Str(<<"a">>), List(<<Str(<<"a">>)>>), Dict(<<Item(<<"a">>, Str(<<"a">>))>>) }

WidgetFileSystems ==
    { [p \in FilePaths |-> IF p = "f1" THEN dump(Dict(<<Item(WidgetKey, v)>>)) ELSE NoFile] :
        v \in WidgetValues }

WidgetOptions == {NoPattern, WordPattern}

InitWidget ==
    /\ DataManager_init(WidgetFileSystems)
    /\ cls = "JsonConfig"
    /\ \E options \in WidgetOptions : ItemWidget_init(options)

NextWidget ==
    \/ \E path \in {"f1"} : load(path, TRUE)
    \/ display(TRUE)
    \/ \E text \in EditTexts : edit(text, TRUE)

SpecWidget == InitWidget /\ [][NextWidget]_vars

-----------------------------------------------------------------------------
(* The field over stored values that are false in a condition, and over a  *)
(* document without the field's key                                        *)

FalsyValues ==
    { Str(<<>>), Bool(FALSE), List(<<>>), Dict(<<>>), Str(<<"a">>) }

FalsyDocuments ==
    { Dict(<<Item(WidgetKey, v)>>) : v \in FalsyValues }
        \cup { Dict(<<Item(<<"B">>, Str(<<"a">>))>>) }

FalsyFileSystems ==
    { [p \in FilePaths |-> IF p = "f1" THEN dump(d) ELSE NoFile] : d \in FalsyDocuments }

FalsyTexts == { <<>>, <<"a">>, <<"a", "a">> }

InitFalsy ==
    /\ DataManager_init(FalsyFileSystems)
    /\ cls = "JsonConfig"
    /\ \E options \in WidgetOptions : ItemWidget_init(options)

NextFalsy ==
    \/ \E path \in {"f1"} : load(path, TRUE)
    \/ display(TRUE)
    \/ \E text \in FalsyTexts : edit(text, TRUE)

SpecFalsy == InitFalsy /\ [][NextFalsy]_vars

-----------------------------------------------------------------------------
(* The codec over lists and dicts of scalars: the field displays the       *)
(* stored value, and the text it shows is parsed and stored back           *)

CodecElems == { Str(<<"a">>), Str(<<>>), Str(<<" ", "a">>), Bool(TRUE) }

CodecKeys == { <<"a">>, <<"b">>, <<" ", "b">> }

CodecValues ==
    { List(<<>>), EmptyDict }
        \cup { List(<<e>>) : e \in CodecElems }
        \cup { List(<<e, f>>) : e \in CodecElems, f \in CodecElems }
        \cup { Dict(<<Item(k, e)>>) : k \in CodecKeys, e \in CodecElems }
        \cup { Dict(<<Item(<<"a">>, e), Item(<<"b">>, f)>>) : e \in CodecElems, f \in CodecElems }

CodecFileSystems ==
    { [p \in FilePaths |-> IF p = "f1" THEN dump(Dict(<<Item(WidgetKey, v)>>)) ELSE NoFile] :
        v \in CodecValues }

InitCodec ==
    /\ DataManager_init(CodecFileSystems)
    /\ cls = "JsonConfig"
    /\ ItemWidget_init(NoPattern)

NextCodec ==
    \/ \E path \in {"f1"} : load(path, TRUE)
    \/ display(TRUE)

SpecCodec == InitCodec /\ [][NextCodec]_vars

-----------------------------------------------------------------------------
(* A store between a mapping-rooted file and a sequence-rooted one *)

RootFileSystems ==
    { [p \in FilePaths |-> IF p = "f1" THEN dump(Dict(<<Item(kA, vx)>>))
                           ELSE dump(List(<<vx>>))] }

RootKeys == {kA, <<"0">>}

InitRoot ==
    /\ DataManager_init(RootFileSystems)
    /\ cls = "JsonConfig"
    /\ ItemWidget_init(NoPattern)

NextRoot ==
    \/ \E path \in FilePaths : load(path, TRUE)
    \/ \E key \in RootKeys : set(key, vy, TRUE)
    \/ \E key \in RootKeys : insert(key, vy)
    \/ \E key \in RootKeys : delete(key)
    \/ snapshot_push
    \/ snapshot_undo
    \/ save("none", EmptyFile)

SpecRoot == InitRoot /\ [][NextRoot]_vars

-----------------------------------------------------------------------------
(* The field over a key with a proxy file: the store of the field binding, *)
(* where the key of the field can be registered for the proxy file p1 and  *)
(* a touch of p1 can fail                                                  *)

NotifyTexts == { <<>>, <<"a">>, <<"a", "a">>, <<"'", "a", "'">>, <<"a", ":", "a">> }

InitNotify ==
    /\ DataManager_init(WidgetFileSystems)
    /\ cls = "JsonConfig"
    /\ \E options \in WidgetOptions : ItemWidget_init(options)

NextNotify ==
    \/ \E path \in {"f1"} : load(path, TRUE)
    \/ add_proxy("p1", <<WidgetKey>>)
    \/ \E touch_ok \in BOOLEAN : display(touch_ok)
    \/ \E text \in NotifyTexts, touch_ok \in BOOLEAN : edit(text, touch_ok)

SpecNotify == InitNotify /\ [][NextNotify]_vars

-----------------------------------------------------------------------------
(* Paths of up to three segments into a document that holds a mapping and  *)
(* a sequence                                                              *)

AutoDocument ==
    Dict(<<Item(kA, Dict(<<Item(kB, vx)>>)), Item(<<"L">>, List(<<vx>>))>>)

AutoFileSystems ==
    { [p \in FilePaths |-> IF p = "f1" THEN dump(AutoDocument) ELSE NoFile] }

AutoPaths ==
    { <<"A", "B">>, <<"A", "C">>, <<"C", "B">>, <<"C", "C", "B">>, <<"A", "C", "B">>,
      <<"L", "0">>, <<"L", "2">>, <<"L", "3">> }

AutoKeys == { Join([i \in 1..Len(p) |-> <<p[i]>>], <<".">>) : p \in AutoPaths }

InitAuto ==
    /\ DataManager_init(AutoFileSystems)
    /\ cls = "JsonConfig"
    /\ ItemWidget_init(NoPattern)

NextAuto ==
    \/ \E path \in {"f1"} : load(path, TRUE)
    \/ \E key \in AutoKeys : set(key, vy, TRUE)
    \/ \E key \in AutoKeys : get(key, None)

SpecAuto == InitAuto /\ [][NextAuto]_vars

-----------------------------------------------------------------------------
(* Field binding *)

\* C2: when the text of the control changes to a text that parse_text finds
\* invalid for the field's category and pattern, the field is marked invalid
\* and the store is as it was: no set, the same document.
C2_InvalidEditsKept ==
    [][(widget_text' # widget_text
        /\ ~parse_text(widget_text', value_type', rgx').is_valid)
          => (/\ is_valid' = FALSE
              /\ result'.op # "set" \/ result' = result
              /\ storeVars' = storeVars)]_vars

\* after a display that fixed the category, the user has typed a text that
\* is not valid and not the encoding of the stored value, which is still
\* the loaded one
C2_Witness ==
    /\ value_type \in {"SCALAR", "LIST", "DICT"}
    /\ ~is_valid
    /\ widget_text # <<>>
    /\ ~parse_text(widget_text, value_type, rgx).is_valid
    /\ loaded.ok
    /\ widget_text # to_text(got(data, WidgetKey, None).ret)

-----------------------------------------------------------------------------
(* Path access *)

\* the segments ks can be walked from target: each is missing or a mapping
RECURSIVE MissingOrMappings(_, _)
MissingOrMappings(target, ks) ==
    \/ ks = <<>>
    \/ /\ target.t = "dict"
       /\ \/ ~HasKey(target, Head(ks))
          \/ /\ DictGet(target, Head(ks)).t = "dict"
             /\ MissingOrMappings(DictGet(target, Head(ks)), Tail(ks))

\* a plain dotted path whose intermediate segments are missing or mappings
\* in the mapping-rooted document d
PlainPath(d, key) ==
    /\ d.t = "dict"
    /\ ~Contains(key, "@") /\ ~Contains(key, "[") /\ ~Contains(key, "*")
    /\ MissingOrMappings(d, Front(Split(key, ".")))

\* C1: after set(P, v) on a mapping-rooted document, with P a plain dotted
\* path whose intermediate segments are missing or mappings and v a scalar
\* other than None, get(P) returns v.
C1_SetThenGet ==
    [][(result'.op = "set" /\ PlainPath(data, result'.args[1].s)
        /\ result'.args[2].t \in {"str", "bool"})
          => got(data', result'.args[1].s, None) =
                 [exc |-> "none", ret |-> result'.args[2]]]_vars

\* a set of a path of two or more segments under a key that the loaded
\* document does not have, after which get returns the value
C1_Witness ==
    /\ result.op = "set"
    /\ Len(Split(result.args[1].s, ".")) >= 2
    /\ loaded.ok
    /\ ~HasKey(loaded.d, Head(Split(result.args[1].s, ".")))
    /\ HasKey(data, Head(Split(result.args[1].s, ".")))
    /\ got(data, result.args[1].s, None).ret = result.args[2]

-----------------------------------------------------------------------------
(* Snapshot history *)

\* a call that pushed a snapshot
Pushed(r) == r.op = "snapshot_push" \/ (r.op = "save" /\ r.ret # None)

\* C3: after a successful load the first snapshot is the document as it was
\* loaded, whatever set, snapshot_push, save and snapshot_undo did since.
C3_FirstSnapshotKept ==
    loaded.ok => (snapshots # <<>> /\ snapshots[1] = loaded.d)

\* more pushes than the capacity since the load: an entry has been evicted
C3_Witness ==
    /\ loaded.ok
    /\ Pushed(result)
    /\ pushes > max_snapshots
    /\ Len(snapshots) = max_snapshots
    /\ snapshots[1] = loaded.d
    /\ snapshots[2] # loaded.d

\* C4: after a successful load the history holds between one and
\* max_snapshots snapshots, and exactly max_snapshots once that many pushes
\* were made without an undo.
C4_HistoryBounded ==
    loaded.ok =>
        /\ 1 <= Len(snapshots)
        /\ Len(snapshots) <= max_snapshots
        /\ (pushes >= max_snapshots => Len(snapshots) = max_snapshots)

\* a push that found the history full
C4_Witness ==
    /\ loaded.ok
    /\ Pushed(result)
    /\ pushes = max_snapshots + 1
    /\ Len(snapshots) = max_snapshots

\* C5: with more than one snapshot, snapshot_undo makes the most recently
\* pushed snapshot the current document, removes exactly that snapshot and
\* keeps the older ones in order, whatever the current document was.
C5_UndoLifo ==
    [][(result'.op = "snapshot_undo" /\ Len(snapshots) > 1) =>
          (data' = Last(snapshots) /\ snapshots' = Front(snapshots))]_vars

\* an undo that found three snapshots or more, over an unsnapshotted edit
C5_Witness ==
    /\ result.op = "snapshot_undo"
    /\ result.n >= 3
    /\ Len(snapshots) = result.n - 1
    /\ data # Last(snapshots)

\* C6: with one snapshot left, snapshot_undo restores that snapshot and keeps
\* it; no undo empties a non-empty history.
C6_UndoBoundary ==
    [][(result'.op = "snapshot_undo" /\ snapshots # <<>>) =>
          /\ snapshots' # <<>>
          /\ Len(snapshots) = 1 =>
                /\ data' = snapshots[1]
                /\ snapshots' = snapshots
                /\ (loaded.ok => data' = loaded.d)]_vars

\* an undo that found a single snapshot, the loaded document
C6_Witness ==
    /\ result.op = "snapshot_undo"
    /\ result.n = 1
    /\ loaded.ok
    /\ snapshots = <<loaded.d>>
    /\ data = loaded.d
    /\ Truthy(data)

-----------------------------------------------------------------------------
(* Dirty flag and saving *)

\* the outcome of a save() that wrote the document to the file
SaveWrote(r) ==
    /\ r.op = "save"
    /\ r.exc = "none"
    /\ (r.ret = Bool(TRUE) \/ (cls = "ConfigFile" /\ r.args[1] = "none"))

\* the outcome of a save() that attempted the write and failed
SaveFailed(r) ==
    /\ r.op = "save"
    /\ (r.ret = Bool(FALSE) \/ (cls = "ConfigFile" /\ r.exc # "none"))

\* C7: right after a set, insert, delete, or snapshot_undo on a non-empty
\* history the store is dirty; right after a save that wrote the file it is
\* not.
C7_DirtyTracking ==
    /\ result.op \in {"set", "insert", "delete"} => unsaved_changes
    /\ (result.op = "snapshot_undo" /\ result.n > 0) => unsaved_changes
    /\ (SaveWrote(result) /\ file_path # NoPath /\ files[file_path] = dump(data))
           => ~unsaved_changes

\* C8: after a first successful load, a store that is not dirty holds the
\* document that the file at file_path holds.
C8_DirtySound ==
    (loaded.ok /\ ~unsaved_changes) =>
        (file_path # NoPath /\ files[file_path] = dump(data))

\* C9: save() on an absent or empty document raises and writes nothing.
C9_EmptyNeverWritten ==
    [][(result'.op = "save" /\ ~Truthy(data)) =>
          (result'.exc # "none" /\ files' = files)]_vars

\* C10: a save() on a dirty store that fails because the file cannot be
\* opened or the codec raises leaves the store dirty.
C10_FailedSaveStaysDirty ==
    [][(unsaved_changes /\ SaveFailed(result')
        /\ ~(result'.args[1] = "close" /\ Truthy(data))) => unsaved_changes']_vars

\* a failed write of a non-empty document: open() failed, or the dump raised
C10_Witness ==
    /\ SaveFailed(result)
    /\ result.args[1] \in {"open", "write"}
    /\ Truthy(data)
    /\ loaded.ok
    /\ unsaved_changes

\* C11: save() on a store that is not dirty, with a file path and a document,
\* writes no file, pushes no snapshot, and leaves the document, the history
\* and the dirty flag as they were.
C11_CleanSaveNoOp ==
    [][(result'.op = "save" /\ ~unsaved_changes /\ file_path # NoPath /\ data # None) =>
          /\ files' = files
          /\ snapshots' = snapshots
          /\ data' = data
          /\ ~unsaved_changes'
          /\ result'.exc = "none"]_vars

\* a save() of a clean store that follows a save() that wrote the file
C11_Witness ==
    /\ result.op = "save"
    /\ result.exc = "none"
    /\ result.ret = None
    /\ cls # "ConfigFile"
    /\ ~unsaved_changes
    /\ file_path # NoPath
    /\ Truthy(data)
    /\ files[file_path] = dump(data)
    /\ Len(snapshots) >= 2

-----------------------------------------------------------------------------
(* Loading *)

\* C12: load of a path whose file does not exist raises FileNotFoundError,
\* and load of a file that is empty or cannot be parsed raises a parse error
\* distinct from it; no failed load returns silently.
C12_LoadFailuresRaise ==
    [][result'.op = "load" =>
          /\ files[result'.args[1]] = NoFile => result'.exc = "FileNotFoundError"
          /\ files[result'.args[1]] \in {EmptyFile, Garbage} =>
                result'.exc \notin {"none", "FileNotFoundError"}]_vars

\* C13: right after a load that succeeded the history holds exactly one
\* snapshot, equal to the document that was loaded from the file.
C13_LoadResetsHistory ==
    [][(result'.op = "load" /\ result'.ret = Bool(TRUE)) =>
          /\ snapshots' = <<data'>>
          /\ files[result'.args[1]].c = "doc" =>
                files[result'.args[1]] = dump(data')]_vars

\* a load of the file that an earlier save wrote: the history it found held
\* the snapshot of the first load and the one that save pushed
C13_Witness ==
    /\ result.op = "load"
    /\ result.ret = Bool(TRUE)
    /\ data = Dict(<<Item(kA, vy)>>)
    /\ files[file_path] = dump(data)
    /\ snapshots = <<data>>

\* C14: right after a load that succeeded the store is not dirty, whatever
\* the dirty flag was before the load.
C14_LoadClearsDirty ==
    [][(result'.op = "load" /\ result'.ret = Bool(TRUE)) => ~unsaved_changes']_vars

\* C15: a load that follows a save which wrote the file, on a store that was
\* loaded before, succeeds and yields the document the store held when it
\* saved.
C15_SaveLoadRoundTrip ==
    [][(loaded.ok /\ SaveWrote(result) /\ result'.op = "load"
        /\ result'.args[1] = file_path) =>
          (result'.ret = Bool(TRUE) /\ data' = data)]_vars

\* a load that read back a nested document with escaped characters, which
\* only a save can have put into the file
C15_Witness ==
    /\ result.op = "load"
    /\ result.ret = Bool(TRUE)
    /\ data = Dict(<<Item(<<"A">>, Str(<<"\"", "\\">>)),
                     Item(<<"B">>, Dict(<<Item(<<"A">>, List(<<Bool(TRUE), None>>))>>))>>)
    /\ files[file_path] = dump(data)
    /\ snapshots = <<data>>

-----------------------------------------------------------------------------
(* Indirect and wildcard paths *)

\* the part of an indirect path before the '@'
MainKey(key) == SubSeq(key, 1, IndexOf(key, "@") - 1)

\* the reference of an indirect path: what follows the '@'
IndirectRef(key) == SubSeq(key, IndexOf(key, "@") + 1, Len(key))

\* key is an indirect path whose reference is a top-level key of the
\* mapping-rooted document d that holds a scalar other than None
Indirect(d, key) ==
    /\ Contains(key, "@")
    /\ d.t = "dict"
    /\ HasKey(d, IndirectRef(key))
    /\ DictGet(d, IndirectRef(key)).t \in {"str", "bool"}

\* the path that an indirect path stands for: the reference replaced by the
\* text of the value it holds
Resolved(d, key) == MainKey(key) \o PyStr(DictGet(d, IndirectRef(key)))

\* C16, as stated: a get of an indirect path M.@REF returns what a get of
\* M.r returns, r being the scalar the top-level key REF holds at the time
\* of the call.
C16_IndirectRead_AnyRef ==
    (result.op = "get" /\ Indirect(data, result.args[1].s)) =>
        [exc |-> result.exc, ret |-> result.ret]
            = got(data, Resolved(data, result.args[1].s), None)

\* C16, amended: the same for a scalar r whose text holds no '@'.
C16_IndirectRead ==
    (/\ result.op = "get"
     /\ Indirect(data, result.args[1].s)
     /\ ~Contains(Resolved(data, result.args[1].s), "@")) =>
        [exc |-> result.exc, ret |-> result.ret]
            = got(data, Resolved(data, result.args[1].s), None)

\* a get through the reference R after R was set to another member of M:
\* it returns that member's value
C16_Witness ==
    /\ result.op = "get"
    /\ result.args[1].s = <<"M", ".", "@", "R">>
    /\ loaded.ok
    /\ Indirect(data, result.args[1].s)
    /\ DictGet(data, <<"R">>) = Str(<<"B">>)
    /\ DictGet(loaded.d, <<"R">>) = Str(<<"A">>)
    /\ result.ret = Str(<<"y">>)

\* the resolved path of an indirect path can be walked in d: it holds no
\* '[' and each segment before the last is missing or a mapping
Walkable(d, key) ==
    /\ ~Contains(Resolved(d, key), "[")
    /\ MissingOrMappings(d, Front(Split(Resolved(d, key), ".")))

\* what C17 says of a set of an indirect path: afterwards a get of the
\* indirect path and a get of the resolved path return the value, and the
\* reference holds what it held
IndirectWritten(d, key, value, after) ==
    /\ got(after, key, None) = [exc |-> "none", ret |-> value]
    /\ got(after, Resolved(d, key), None) = [exc |-> "none", ret |-> value]
    /\ after.t = "dict"
    /\ HasKey(after, IndirectRef(key))
    /\ DictGet(after, IndirectRef(key)) = DictGet(d, IndirectRef(key))

\* C17, as stated: set(M.@REF, v), REF holding the scalar r, stores v at
\* M.r: afterwards get(M.@REF) and get(M.r) return v and REF holds r.
C17_IndirectWrite_AnyRef ==
    [][(result'.op = "set" /\ Indirect(data, result'.args[1].s)) =>
          IndirectWritten(data, result'.args[1].s, result'.args[2], data')]_vars

\* C17, amended: the same where the text of r holds no '@' and M.r can be
\* walked (no '[', every segment before the last missing or a mapping).
C17_IndirectWrite ==
    [][(/\ result'.op = "set"
        /\ Indirect(data, result'.args[1].s)
        /\ ~Contains(Resolved(data, result'.args[1].s), "@")
        /\ Walkable(data, result'.args[1].s)) =>
          IndirectWritten(data, result'.args[1].s, result'.args[2], data')]_vars

\* a set through the reference R, holding B, that replaced the member B of
\* M and left the member A and the reference alone
C17_Witness ==
    /\ result.op = "set"
    /\ result.args[1].s = <<"M", ".", "@", "R">>
    /\ result.args[2] = Str(<<"A">>)
    /\ data.t = "dict"
    /\ DictGet(data, <<"R">>) = Str(<<"B">>)
    /\ DictGet(data, <<"M">>) =
           Dict(<<Item(<<"A">>, Str(<<"x">>)), Item(<<"B">>, Str(<<"A">>))>>)

\* key is an indirect path whose reference is no top-level key of the
\* mapping- or sequence-rooted document d
Unresolvable(d, key) ==
    /\ Contains(key, "@")
    /\ d.t \in {"dict", "list"}
    /\ ~(d.t = "dict" /\ HasKey(d, IndirectRef(key)))

\* C18: a get of an indirect path whose reference is no top-level key
\* returns the default, a set of it leaves the document as it was, and
\* neither raises, for mapping-rooted and sequence-rooted documents.
C18_UnresolvedIsAbsent ==
    [][(result'.op \in {"get", "set"} /\ Unresolvable(data, result'.args[1].s)) =>
          /\ result'.exc = "none"
          /\ data' = data
          /\ result'.op = "get" => result'.ret = None]_vars

\* key is a wildcard path: a path without reference followed by ".*"
Wildcard(key) ==
    /\ Len(key) > 2
    /\ SubSeq(key, Len(key) - 1, Len(key)) = <<".", "*">>
    /\ ~Contains(key, "@")

\* the path a wildcard path ends: what precedes the ".*"
WildcardPrefix(key) == SubSeq(key, 1, Len(key) - 2)

\* C19: where the path M addresses a mapping, get("M.*") returns the
\* entries of that mapping.
C19_WildcardRead ==
    (/\ result.op = "get"
     /\ Wildcard(result.args[1].s)
     /\ got(data, WildcardPrefix(result.args[1].s), None).ret.t = "dict") =>
        /\ result.exc = "none"
        /\ result.ret = got(data, WildcardPrefix(result.args[1].s), None).ret

\* C20: set("M.*", x) leaves the document as it was and raises nothing.
C20_WildcardWriteNoOp ==
    [][(/\ result'.op = "set"
        /\ Wildcard(result'.args[1].s)
        /\ data.t \in {"dict", "list"}) =>
          (data' = data /\ result'.exc = "none")]_vars

-----------------------------------------------------------------------------
(* Errors of path access *)

\* walking the segments ks from target reaches a scalar before the last
\* segment
RECURSIVE ThroughScalar(_, _)
ThroughScalar(target, ks) ==
    /\ ks # <<>>
    /\ target.t = "dict"
    /\ HasKey(target, Head(ks))
    /\ \/ DictGet(target, Head(ks)).t \notin {"dict", "list"}
       \/ ThroughScalar(DictGet(target, Head(ks)), Tail(ks))

\* C21: a set whose path walks through a scalar, and a get or set whose
\* path holds a '[', raise an error to the caller.
C21_TraversalErrorsRaised ==
    [][(/\ result'.op \in {"get", "set"}
        /\ data.t = "dict"
        /\ ~Contains(result'.args[1].s, "@")
        /\ \/ Contains(result'.args[1].s, "[")
           \/ /\ result'.op = "set"
              /\ ThroughScalar(data, Front(Split(result'.args[1].s, ".")))) =>
          result'.exc # "none"]_vars

-----------------------------------------------------------------------------
(* Proxy files *)

\* the keys of a key list
KeysOf(keys) == {keys[i] : i \in 1..Len(keys)}

\* the registrations in mapping that add_proxy(proxy_file, keys) conflicts
\* with: those of one of the keys to another file
Conflicts(mapping, proxy_file, keys) ==
    {e \in mapping : e.key \in KeysOf(keys) /\ e.file # proxy_file}

\* C22: no key is ever registered to two proxy files; an add_proxy that
\* names a key registered to another file raises, and that key keeps the
\* file it was registered to.
C22_FirstProxyWins ==
    [][/\ \A e1, e2 \in proxy_mapping' : e1.key = e2.key => e1.file = e2.file
       /\ (/\ result'.op = "add_proxy"
           /\ Conflicts(proxy_mapping, result'.args[1], result'.args[2]) # {}) =>
             /\ result'.exc = "ValueError"
             /\ Conflicts(proxy_mapping, result'.args[1], result'.args[2])
                    \subseteq proxy_mapping']_vars

\* an add_proxy of p2 for B and A that found A registered to p1: it raised
\* after it had registered B
C22_Witness ==
    /\ result.op = "add_proxy"
    /\ result.exc = "ValueError"
    /\ result.args = <<"p2", <<kB, kA>>>>
    /\ proxy_mapping = {[key |-> kA, file |-> "p1"], [key |-> kB, file |-> "p2"]}

\* the proxy files registered for key
Registered(key) == {e.file : e \in {m \in proxy_mapping : m.key = key}}

\* C23: a set touches no proxy file but the one registered for its key, and
\* touches that one when it returns; a set of a key with no registration
\* touches none.
C23_ProxyTouchExact ==
    [][result'.op = "set" =>
          /\ touched' \subseteq Registered(result'.args[1].s)
          /\ Cardinality(touched') <= 1
          /\ result'.exc = "none" => touched' = Registered(result'.args[1].s)]_vars

\* a set of A, registered to p1 while B is registered to p2, that touched p1
C23_Witness ==
    /\ result.op = "set"
    /\ result.args[1].s = kA
    /\ proxy_mapping = {[key |-> kA, file |-> "p1"], [key |-> kB, file |-> "p2"]}
    /\ touched = {"p1"}

\* C24: a set whose touch of the proxy file fails still returns normally:
\* the value is stored, the store is dirty and no error reaches the caller.
C24_TouchFailureContained ==
    [][(result'.op = "set" /\ data.t = "dict" /\ Registered(result'.args[1].s) # {}) =>
          /\ result'.exc = "none"
          /\ unsaved_changes'
          /\ got(data', result'.args[1].s, None).ret = result'.args[2]]_vars

-----------------------------------------------------------------------------
(* Sequence-rooted documents *)

\* the list l with v placed at index i, the later elements shifted
Inserted(l, i, v) ==
    List(SubSeq(l.elems, 1, i) \o <<v>> \o SubSeq(l.elems, i + 1, Len(l.elems)))

\* the list l without the element at index i
Deleted(l, i) ==
    List(SubSeq(l.elems, 1, i) \o SubSeq(l.elems, i + 2, Len(l.elems)))

\* C25: on a non-empty sequence-rooted document insert(i, v) with
\* 0 <= i <= len places v at index i, delete(i) with 0 <= i < len removes
\* the element at index i, and each leaves the store dirty.
C25_SequenceEdits ==
    [][(data.t = "list" /\ data.elems # <<>>) =>
          /\ (/\ result'.op = "insert"
              /\ ToInt(result'.args[1].s) <= Len(data.elems)) =>
                /\ result'.exc = "none"
                /\ data' = Inserted(data, ToInt(result'.args[1].s), result'.args[2])
                /\ unsaved_changes'
          /\ (/\ result'.op = "delete"
              /\ ToInt(result'.args[1].s) < Len(data.elems)) =>
                /\ result'.exc = "none"
                /\ data' = Deleted(data, ToInt(result'.args[1].s))
                /\ unsaved_changes']_vars

-----------------------------------------------------------------------------
(* Display of a field *)

\* C26: display() only reads the store: it performs no set, and the
\* document, the dirty flag and the proxy files are after it as before.
C26_DisplayNoFeedback ==
    [][display(TRUE) =>
          /\ result'.op # "set"
          /\ data' = data
          /\ unsaved_changes' = unsaved_changes
          /\ touched' = {}]_vars

\* C27: display() on a loaded mapping-rooted document that holds a value
\* other than None under the field's key, be it false, "" or an empty
\* collection, leaves the category fixed and the control showing the value
\* as text; with the key absent it leaves the text and the category as they
\* were.
C27_OnlyAbsentIsMissing ==
    [][(display(TRUE) /\ data.t = "dict") =>
          IF HasKey(data, WidgetKey) /\ DictGet(data, WidgetKey) # None
          THEN /\ value_type' # "None"
               /\ widget_text' = to_text(DictGet(data, WidgetKey))
          ELSE /\ value_type' = value_type
               /\ widget_text' = widget_text]_vars

-----------------------------------------------------------------------------
(* Round trip of the codec *)

\* the texts of the elements of the list or dict v: the str() of each list
\* element, and each key and the str() of each value of a dict
ElementTexts(v) ==
    IF v.t = "list" THEN { PyStr(v.elems[i]) : i \in 1..Len(v.elems) }
    ELSE { v.items[i].k : i \in 1..Len(v.items) }
             \cup { PyStr(v.items[i].v) : i \in 1..Len(v.items) }

\* no element of v holds a comma, a colon or a quote
NoConflict(v) ==
    \A t \in ElementTexts(v) : \A i \in 1..Len(t) : t[i] \notin {",", ":"} \cup Quotes

\* every element of the list v, every value of the dict v, is a string
Strings(v) ==
    IF v.t = "list" THEN \A i \in 1..Len(v.elems) : v.elems[i].t = "str"
    ELSE \A i \in 1..Len(v.items) : v.items[i].v.t = "str"

\* the keys and values of the dict v are not empty and have no whitespace
\* at either end
Trimmed(v) ==
    v.t = "dict" => \A t \in ElementTexts(v) : t # <<>> /\ LStrip(t) = t /\ RStrip(t) = t

\* the field's key holds a List or a Dict in the document
HoldsCollection ==
    /\ data.t = "dict"
    /\ HasKey(data, WidgetKey)
    /\ data_category(DictGet(data, WidgetKey)) \in {"LIST", "DICT"}

\* parse(to_text(v), classify(v), pattern) = (v, true)
RoundTrip(v) ==
    parse_text(to_text(v), data_category(v), get_regex(v)) = [data |-> v, is_valid |-> TRUE]

-----------------------------------------------------------------------------
(* The kind of the root *)

\* the document d is a mapping or a sequence
Rooted(d) == d.t \in {"dict", "list"}

\* C29 as stated: once a document is loaded, no operation, a further load
\* included, changes the kind of the root.
C29_RootKindFixed_AnyLoad ==
    [][Rooted(data) => data'.t = data.t]_vars

\* C29: once a document is loaded, no operation other than a further load
\* that succeeds changes the kind of the root.
C29_RootKindFixed ==
    [][(Rooted(data) /\ ~(result'.op = "load" /\ result'.ret = Bool(TRUE)))
          => data'.t = data.t]_vars

\* an undo that found one snapshot, in a store that saved an edit of the
\* mapping-rooted document and loaded the sequence-rooted file after it: the
\* document restored is the sequence of the last load
C29_Witness ==
    /\ result.op = "snapshot_undo"
    /\ result.n = 1
    /\ pushes = 0
    /\ loaded.ok /\ loaded.d.t = "list"
    /\ data = loaded.d
    /\ files["f1"] # dump(Dict(<<Item(kA, vx)>>))

-----------------------------------------------------------------------------
(* Independence of the snapshots *)

\* C30: no snapshot of the history is the object of the live document or
\* shares structure with it, so a set, insert or delete, right after a
\* snapshot_push or a snapshot_undo as well, changes no snapshot.
C30_SnapshotsIndependent ==
    /\ [](shared = {})
    /\ [][(result'.op \in {"set", "insert", "delete"}) => snapshots' = snapshots]_vars

\* a set that changed the document after an undo, with several snapshots in
\* the history, none of which shows the change
C30_Witness ==
    /\ result.op = "set" /\ result.exc = "none"
    /\ pushes = 0
    /\ Len(snapshots) >= 2
    /\ \A i \in 1..Len(snapshots) : snapshots[i] # data
    /\ snapshots[1] = loaded.d

-----------------------------------------------------------------------------
(* The callback of the field *)

\* C31: every run of on_widget_changed, for a valid text or an invalid one,
\* calls the callback once, with the key and the text of the control.
C31_NotifiedOnce ==
    [][(widget_text' # widget_text) =>
          notified' = <<[key |-> WidgetKey, text |-> widget_text']>>]_vars

-----------------------------------------------------------------------------
(* Containers created by set *)

\* the segments ks lead to a value in tree
RECURSIVE Has(_, _)
Has(tree, ks) ==
    \/ ks = <<>>
    \/ /\ tree.t = "dict"
       /\ HasKey(tree, Head(ks))
       /\ Has(DictGet(tree, Head(ks)), Tail(ks))
    \/ /\ tree.t = "list"
       /\ IsDigit(Head(ks))
       /\ ToInt(Head(ks)) < Len(tree.elems)
       /\ Has(tree.elems[ToInt(Head(ks)) + 1], Tail(ks))

\* the value the segments ks lead to in tree
RECURSIVE At(_, _)
At(tree, ks) ==
    IF ks = <<>> THEN tree
    ELSE IF tree.t = "dict" THEN At(DictGet(tree, Head(ks)), Tail(ks))
    ELSE At(tree.elems[ToInt(Head(ks)) + 1], Tail(ks))

\* a set can walk the segments ks from tree: every intermediate segment is
\* a missing key of a mapping, or leads to a mapping or into a sequence, and
\* the last one is a key of a mapping or an index of a sequence
RECURSIVE CanWalk(_, _)
CanWalk(tree, ks) ==
    IF Len(ks) = 1
    THEN tree.t = "dict" \/ (tree.t = "list" /\ IsDigit(ks[1]))
    ELSE \/ tree.t = "dict" /\ ~HasKey(tree, Head(ks))
         \/ /\ tree.t = "dict" /\ HasKey(tree, Head(ks))
            /\ CanWalk(DictGet(tree, Head(ks)), Tail(ks))
         \/ /\ tree.t = "list" /\ IsDigit(Head(ks))
            /\ ToInt(Head(ks)) < Len(tree.elems)
            /\ CanWalk(tree.elems[ToInt(Head(ks)) + 1], Tail(ks))

\* the mapping c and the mapping e hold the same entries under the keys
\* other than k
SameButKey(c, e, k) ==
    /\ e.t = "dict"
    /\ \A i \in 1..Len(c.items) :
          c.items[i].k # k =>
              HasKey(e, c.items[i].k) /\ DictGet(e, c.items[i].k) = c.items[i].v
    /\ \A i \in 1..Len(e.items) : e.items[i].k # k => HasKey(c, e.items[i].k)

\* the elements of a sequence after v is stored at index: the elements
\* before, absent placeholders up to index when it is beyond the end, and v
StoredAt(elems, index, v) ==
    [i \in 1..(IF index < Len(elems) THEN Len(elems) ELSE index + 1) |->
        IF i = index + 1 THEN v
        ELSE IF i <= Len(elems) THEN elems[i]
        ELSE None]

\* what C32 says of the set of value under the segments ks, from document d
\* to document e
AutoCreated(d, e, ks, value) ==
    /\ \A n \in 1..(Len(ks) - 1) :
          /\ Has(e, SubSeq(ks, 1, n))
          /\ IF Has(d, SubSeq(ks, 1, n))
             THEN \/ /\ At(d, SubSeq(ks, 1, n)).t = "dict"
                     /\ SameButKey(At(d, SubSeq(ks, 1, n)), At(e, SubSeq(ks, 1, n)), ks[n + 1])
                  \/ /\ At(d, SubSeq(ks, 1, n)).t = "list"
                     /\ At(e, SubSeq(ks, 1, n)).t = "list"
             ELSE /\ At(e, SubSeq(ks, 1, n)).t = "dict"
                  /\ Len(At(e, SubSeq(ks, 1, n)).items) = 1
    /\ Has(e, ks) /\ At(e, ks) = value
    /\ (Has(d, Front(ks)) /\ At(d, Front(ks)).t = "list") =>
          At(e, Front(ks)) = List(StoredAt(At(d, Front(ks)).elems, ToInt(Last(ks)), value))

\* C32: a set whose path can be walked creates each missing intermediate
\* key as a mapping that holds the next segment only, keeps the other
\* entries of the mappings it walks through, stores the value at the path,
\* and stores it in a sequence at the index, after absent placeholders when
\* the index is beyond the end.
C32_AutoCreation ==
    [][(/\ result'.op = "set"
        /\ data.t = "dict"
        /\ CanWalk(data, Split(result'.args[1].s, "."))) =>
          AutoCreated(data, data', Split(result'.args[1].s, "."), result'.args[2])]_vars

\* a set has created two mappings on its way, and another has extended the
\* sequence by a placeholder and the value
C32_Witness ==
    /\ result.op = "set" /\ result.exc = "none"
    /\ Has(data, <<<<"C">>, <<"C">>, <<"B">>>>)
    /\ At(data, <<<<"C">>>>) = Dict(<<Item(<<"C">>, Dict(<<Item(<<"B">>, vy)>>))>>)
    /\ At(data, <<<<"L">>>>) = List(<<vx, None, vy>>)

-----------------------------------------------------------------------------
(* The snapshot of a save *)

\* the history snaps without the snapshot a push at capacity evicts
Kept(snaps) ==
    IF Len(snaps) >= max_snapshots
    THEN <<snaps[1]>> \o SubSeq(snaps, 3, Len(snaps))
    ELSE snaps

\* C33: a save on a dirty store with a path and a document pushes one
\* snapshot, the document it writes, whether the write succeeds or not; and
\* a snapshot_undo that comes right after a save that returned leaves the
\* document as it was saved.
C33_SaveSnapshots ==
    [][/\ (/\ result'.op = "save"
           /\ unsaved_changes /\ file_path # NoPath /\ data # None) =>
              /\ data' = data
              /\ snapshots' = Append(Kept(snapshots), data)
       /\ (/\ result.op = "save" /\ result.exc = "none"
           /\ result'.op = "snapshot_undo") =>
              data' = data]_vars

-----------------------------------------------------------------------------
(* Loads that fail *)

\* C34: a load that fails leaves the document, the history, the dirty flag,
\* the file path and the proxy mapping as they were.
C34_FailedLoadNoChange ==
    [][(result'.op = "load" /\ (result'.ret = Bool(FALSE) \/ result'.exc # "none")) =>
          /\ data' = data
          /\ snapshots' = snapshots
          /\ unsaved_changes' = unsaved_changes
          /\ file_path' = file_path
          /\ proxy_mapping' = proxy_mapping]_vars

-----------------------------------------------------------------------------
(* Proxy registrations that are rejected or discarded *)

\* C35: an add_proxy that raises leaves the proxy mapping as it was.
C35_RejectedAddProxyAtomic ==
    [][(result'.op = "add_proxy" /\ result'.exc # "none") =>
          proxy_mapping' = proxy_mapping]_vars

\* C36: every load empties the proxy mapping, so that the set right after a
\* load touches no proxy file and the add_proxy right after a load registers
\* its keys for its file without a conflict.
C36_LoadDiscardsProxies ==
    [][/\ result'.op = "load" => proxy_mapping' = {}
       /\ (result.op = "load" /\ result'.op = "set") => touched' = {}
       /\ (result.op = "load" /\ result'.op = "add_proxy") =>
             /\ result'.exc = "none"
             /\ proxy_mapping' = {[key |-> result'.args[2][i], file |-> result'.args[1]] :
                                     i \in 1..Len(result'.args[2])}]_vars

\* a load has found both keys registered and has left none
C36_Witness ==
    /\ result.op = "load"
    /\ result.n = 2
    /\ proxy_mapping = {}

-----------------------------------------------------------------------------
(* The frame of a set *)

\* the path a key stands for in document d: an indirect key resolved, a
\* plain key as it is
Target(d, key) == IF Contains(key, "@") THEN Resolved(d, key) ELSE key

\* key resolves in the mapping-rooted document d to a path a set can walk
Resolvable(d, key) ==
    /\ d.t = "dict"
    /\ Contains(key, "@") => Indirect(d, key)
    /\ ~Contains(Target(d, key), "@")
    /\ ~Contains(Target(d, key), "[")
    /\ ~Contains(Target(d, key), "*")
    /\ CanWalk(d, Split(Target(d, key), "."))

\* one of the segment sequences a and b begins with the other
Related(a, b) ==
    \/ Len(a) <= Len(b) /\ SubSeq(b, 1, Len(a)) = a
    \/ Len(b) <= Len(a) /\ SubSeq(a, 1, Len(b)) = b

\* the paths that are read before and after a set
OtherPaths ==
    IndirectGetKeys \cup IndirectSetKeys \cup {<<"Q">>, <<"M">>}

\* the path key returns a value in d, and stands for a path that neither
\* leads to the target of path nor goes through it
Apart(d, key, path) ==
    /\ key # path
    /\ got(d, key, None).exc = "none"
    /\ got(d, key, None).ret # None
    /\ Contains(key, "@") => Indirect(d, key)
    /\ ~Related(Split(Target(d, key), "."), Split(Target(d, path), "."))

\* key is an indirect path whose reference is the target of path
RefersTo(d, key, path) ==
    Contains(key, "@") /\ IndirectRef(key) = Target(d, path)

\* C37 as stated: a set of a resolvable path stores the value at the path,
\* every other path that returned a value returns the same value after it,
\* and the history is unchanged.
C37_SetFrame_AnyPath ==
    [][(/\ result'.op = "set" /\ result'.exc = "none"
        /\ Resolvable(data, result'.args[1].s)) =>
          /\ snapshots' = snapshots
          /\ Has(data', Split(Target(data, result'.args[1].s), "."))
          /\ At(data', Split(Target(data, result'.args[1].s), ".")) = result'.args[2]
          /\ \A key \in OtherPaths :
                Apart(data, key, result'.args[1].s) =>
                    got(data', key, None) = got(data, key, None)]_vars

\* C37: a set of a resolvable path stores the value at the path, every
\* other path that returned a value, other than an indirect path whose
\* reference is the path that is set, returns the same value after it, and
\* the history is unchanged.
C37_SetFrame ==
    [][(/\ result'.op = "set" /\ result'.exc = "none"
        /\ Resolvable(data, result'.args[1].s)) =>
          /\ snapshots' = snapshots
          /\ Has(data', Split(Target(data, result'.args[1].s), "."))
          /\ At(data', Split(Target(data, result'.args[1].s), ".")) = result'.args[2]
          /\ \A key \in OtherPaths :
                (/\ Apart(data, key, result'.args[1].s)
                 /\ ~RefersTo(data, key, result'.args[1].s)) =>
                    got(data', key, None) = got(data, key, None)]_vars

\* a set through the reference R, which holds B, has stored A at M.B: M.A,
\* R and Q hold what was loaded
C37_Witness ==
    /\ result.op = "set" /\ result.exc = "none"
    /\ result.args = <<Str(<<"M", ".", "@", "R">>), Str(<<"A">>)>>
    /\ data = Dict(<<Item(<<"R">>, Str(<<"B">>)), Item(<<"Q">>, Str(<<"B">>)),
                     Item(<<"M">>, Dict(<<Item(<<"A">>, Str(<<"x">>)),
                                          Item(<<"B">>, Str(<<"A">>))>>))>>)

-----------------------------------------------------------------------------
(* The source file of a load *)

\* C38: a load leaves the file at its path as it was, whatever the file
\* holds and whether the load returns or raises.
C38_LoadKeepsFile ==
    [][result'.op = "load" => files' = files]_vars

====
